---- MODULE Spec2Model ----
(***************************************************************************)
(* The JSON editor's state machine: the reducer of src/src/App.tsx         *)
(* (editorReducer and the document operations it calls) over a normalized  *)
(* node store, with snapshot undo/redo.                                    *)
(*                                                                         *)
(* JavaScript strings are sequences of one-character strings (so that      *)
(* trim, toLowerCase, includes and localeCompare are computed), node ids   *)
(* are positive integers (0 is undefined), createId returns an id that the *)
(* state holds nowhere, and a JavaScript value is a record [t, v, kids].   *)
(***************************************************************************)
EXTENDS Integers, Sequences, FiniteSets, TLC

VARIABLES state, hist

\* const name = value; body: the value is computed once and named in body.
Let(value, body(_)) == body(value)

vars == <<state, hist>>

\* ------------------------------------------------------------------ bounds

\* Commands are taken while the document has at most MaxNodes nodes.
MaxNodes == 6
\* History-pushing commands are taken while the undo stack is shorter.
MaxHist == 2
\* The deep-history specification takes at most MaxSteps commands.
MaxSteps == 53

\* ----------------------------------------------------------------- strings

sEmpty == <<>>
sA == <<"a">>
sB == <<"b">>
sUpperA == <<"A">>
sBlank == <<" ">>
sPadB == <<" ", "b">>
sOne == <<"1">>
sZero == <<"0">>
sTrue == <<"t", "r", "u", "e">>
sFalse == <<"f", "a", "l", "s", "e">>
sNull == <<"n", "u", "l", "l">>
sNaN == <<"N", "a", "N">>
sInfinity == <<"I", "n", "f", "i", "n", "i", "t", "y">>
sNegInfinity == <<"-">> \o sInfinity

Whitespace == {" "}
Digits == <<"0", "1", "2", "3", "4", "5", "6", "7", "8", "9">>
LowerChars ==
  <<"a", "b", "c", "d", "e", "f", "g", "h", "i", "j", "k", "l", "m",
    "n", "o", "p", "q", "r", "s", "t", "u", "v", "w", "x", "y", "z">>
UpperChars ==
  <<"A", "B", "C", "D", "E", "F", "G", "H", "I", "J", "K", "L", "M",
    "N", "O", "P", "Q", "R", "S", "T", "U", "V", "W", "X", "Y", "Z">>

IndexIn(c, chars) ==
  IF \E i \in DOMAIN chars : chars[i] = c
    THEN CHOOSE i \in DOMAIN chars : chars[i] = c
    ELSE 0

RECURSIVE trimStart(_)
trimStart(s) ==
  IF s # <<>> /\ Head(s) \in Whitespace THEN trimStart(Tail(s)) ELSE s

RECURSIVE trimEnd(_)
trimEnd(s) ==
  IF s # <<>> /\ s[Len(s)] \in Whitespace
    THEN trimEnd(SubSeq(s, 1, Len(s) - 1))
    ELSE s

\* String.prototype.trim
trim(s) == trimEnd(trimStart(s))

\* A string left in the case it was written in.
keepCase(s) == s

\* String.prototype.toLowerCase
toLowerCase(s) ==
  [i \in DOMAIN s |->
    IF IndexIn(s[i], UpperChars) > 0
      THEN LowerChars[IndexIn(s[i], UpperChars)]
      ELSE s[i]]

\* String.prototype.includes
includes(s, sub) ==
  \E i \in 1..(Len(s) - Len(sub) + 1) : SubSeq(s, i, i + Len(sub) - 1) = sub

\* Collation weight of a character: white space, then digits, then letters
\* (a letter and its capital share the weight).
PrimaryWeight(c) ==
  IF c \in Whitespace THEN 1
  ELSE IF IndexIn(c, Digits) > 0 THEN 10 + IndexIn(c, Digits)
  ELSE IF IndexIn(c, LowerChars) > 0 THEN 100 + IndexIn(c, LowerChars)
  ELSE IF IndexIn(c, UpperChars) > 0 THEN 100 + IndexIn(c, UpperChars)
  ELSE 5

\* Case weight: a lower-case letter sorts before its capital.
CaseWeight(c) == IF IndexIn(c, UpperChars) > 0 THEN 1 ELSE 0

Weight(c, level) == IF level = 1 THEN PrimaryWeight(c) ELSE CaseWeight(c)

RECURSIVE CompareBy(_, _, _)
CompareBy(a, b, level) ==
  IF a = <<>> /\ b = <<>> THEN 0
  ELSE IF a = <<>> THEN 0 - 1
  ELSE IF b = <<>> THEN 1
  ELSE Let(Weight(Head(a), level) - Weight(Head(b), level), LAMBDA diff :
         IF diff < 0 THEN 0 - 1
         ELSE IF diff > 0 THEN 1
         ELSE CompareBy(Tail(a), Tail(b), level))

\* String.prototype.localeCompare: the letters decide, then the case.
localeCompare(a, b) ==
  Let(CompareBy(a, b, 1), LAMBDA primary :
    IF primary # 0 THEN primary ELSE CompareBy(a, b, 2))

\* ------------------------------------------------------- JavaScript values

\* A value is [t, v, kids]: t its type, v a scalar's String() rendering,
\* kids the members of an object (key, val) or of an array (key empty).
Scalar(t, v) == [t |-> t, v |-> v, kids |-> <<>>]
JsNull == Scalar("null", sEmpty)
JsString(s) == Scalar("string", s)
JsNumber(s) == Scalar("number", s)
JsBoolean(b) == Scalar("boolean", IF b THEN sTrue ELSE sFalse)
Member(key, val) == [key |-> key, val |-> val]
JsArray(vals) ==
  [t |-> "array", v |-> sEmpty, kids |-> [i \in DOMAIN vals |-> Member(sEmpty, vals[i])]]

\* Number.isNaN / Number.isFinite on a number's rendering
IsNaN(val) == val.t = "number" /\ val.v = sNaN
IsFinite(val) == val.t = "number" /\ val.v \notin {sNaN, sInfinity, sNegInfinity}

\* String(value)
ToJsString(val) == IF val.t = "null" THEN sNull ELSE val.v

\* Boolean(value)
ToJsBoolean(val) ==
  CASE val.t = "string" -> val.v # sEmpty
    [] val.t = "number" -> val.v \notin {sZero, sNaN}
    [] val.t = "boolean" -> val.v = sTrue
    [] OTHER -> FALSE

\* An own property key that is an array index ("0", "1", "10"): such keys
\* are enumerated first, in ascending numeric order.
IsIndexKey(key) ==
  /\ key # <<>>
  /\ \A i \in DOMAIN key : IndexIn(key[i], Digits) > 0
  /\ (Len(key) = 1 \/ key[1] # "0")

RECURSIVE IndexValue(_)
IndexValue(key) ==
  IF key = <<>> THEN 0
  ELSE 10 * IndexValue(SubSeq(key, 1, Len(key) - 1)) + (IndexIn(key[Len(key)], Digits) - 1)

sProto == <<"_", "_", "p", "r", "o", "t", "o", "_", "_">>

\* The own property key: val defined on an object whose own properties are
\* kids, as JSON.parse and an object literal define it.
ObjDefine(kids, key, val) ==
  IF \E i \in DOMAIN kids : kids[i].key = key
    THEN [i \in DOMAIN kids |-> IF kids[i].key = key THEN Member(key, val) ELSE kids[i]]
  ELSE IF IsIndexKey(key)
    THEN Let(Cardinality({i \in DOMAIN kids :
                           IsIndexKey(kids[i].key)
                             /\ IndexValue(kids[i].key) < IndexValue(key)}),
             LAMBDA n :
               SubSeq(kids, 1, n) \o <<Member(key, val)>> \o SubSeq(kids, n + 1, Len(kids)))
  ELSE Append(kids, Member(key, val))

\* obj[key] = val on an ordinary object whose own properties are kids: the
\* key __proto__ names the accessor of Object.prototype, whose setter
\* replaces the prototype or ignores the value, and no own property is made.
ObjAssign(kids, key, val) ==
  IF key = sProto THEN kids ELSE ObjDefine(kids, key, val)

RECURSIVE ObjFromMembers(_, _)
ObjFromMembers(members, acc) ==
  IF members = <<>> THEN acc
  ELSE ObjFromMembers(Tail(members), ObjDefine(acc, Head(members).key, Head(members).val))

JsObject(members) ==
  [t |-> "object", v |-> sEmpty, kids |-> ObjFromMembers(members, <<>>)]

\* ------------------------------------------------------------------- texts

\* A text is [valid, tree, layout]: whether JSON.parse accepts it, the JSON
\* it spells (members in the order written, duplicates kept), and its white
\* space: the indent width of JSON.stringify's layout, or -1 for any other.
FreeLayout == 0 - 1
\* A text JSON.parse rejects, and the empty text (which it rejects too).
InvalidText == [valid |-> FALSE, tree |-> Scalar("invalid", <<"{">>), layout |-> FreeLayout]
EmptyText == [valid |-> FALSE, tree |-> Scalar("invalid", sEmpty), layout |-> FreeLayout]

HasMembers(value) == value.t \in {"object", "array"} /\ value.kids # <<>>

\* What JSON.stringify writes for a value: a number that is not finite is
\* written null.
RECURSIVE StringifyTree(_)
StringifyTree(value) ==
  IF value.t \in {"object", "array"}
    THEN [value EXCEPT !.kids =
            [i \in DOMAIN value.kids |->
               Member(value.kids[i].key, StringifyTree(value.kids[i].val))]]
  ELSE IF value.t = "number" /\ ~IsFinite(value) THEN JsNull
  ELSE value

\* JSON.stringify(value, null, indent): scalars and empty containers are
\* written the same for every indent, and the indent is capped at 10.
formatJson(value, indent) ==
  [valid |-> TRUE,
   tree |-> StringifyTree(value),
   layout |-> IF HasMembers(value) /\ indent > 0
                THEN (IF indent > 10 THEN 10 ELSE indent)
                ELSE 0]

\* JSON.stringify(value)
minifyJson(value) ==
  [valid |-> TRUE, tree |-> StringifyTree(value), layout |-> 0]

\* The value JSON.parse builds from the JSON a text spells.
RECURSIVE ParseTree(_)
ParseTree(tree) ==
  IF tree.t = "object"
    THEN JsObject([i \in DOMAIN tree.kids |->
                     Member(tree.kids[i].key, ParseTree(tree.kids[i].val))])
  ELSE IF tree.t = "array"
    THEN [tree EXCEPT !.kids =
            [i \in DOMAIN tree.kids |-> Member(sEmpty, ParseTree(tree.kids[i].val))]]
  ELSE tree

NoParseError == [message |-> ""]

\* A parser that reads every text as null.
parseAsNull(text) == [ok |-> TRUE, value |-> JsNull, error |-> NoParseError]

parseJson(text) ==
  IF text.valid
    THEN [ok |-> TRUE, value |-> ParseTree(text.tree), error |-> NoParseError]
    ELSE [ok |-> FALSE, value |-> JsNull, error |-> [message |-> "Unexpected token"]]

\* --------------------------------------------------------------- documents

NoId == 0
NoDoc == [rootId |-> NoId, nodes |-> <<>>]

ObjectNode(id, entries) ==
  [id |-> id, type |-> "object", entries |-> entries, items |-> <<>>, value |-> sEmpty]
ArrayNode(id, items) ==
  [id |-> id, type |-> "array", entries |-> <<>>, items |-> items, value |-> sEmpty]
ScalarNode(id, type, value) ==
  [id |-> id, type |-> type, entries |-> <<>>, items |-> <<>>, value |-> value]
Entry(key, childId) == [key |-> key, childId |-> childId]

NodeIds(doc) == DOMAIN doc.nodes
Has(doc, id) == id \in NodeIds(doc)

\* The child ids a node refers to, in order.
ChildIds(node) ==
  IF node.type = "object" THEN [i \in DOMAIN node.entries |-> node.entries[i].childId]
  ELSE IF node.type = "array" THEN node.items
  ELSE <<>>

Range(seq) == {seq[i] : i \in DOMAIN seq}

\* createId: a fresh id, one that used does not hold (a random UUID).
createId(used) == CHOOSE id \in 1..(Cardinality(used) + 1) : id \notin used

\* buildNode: the id is taken first, then the members are built in order.
\* Returns [id, nodes, used], used growing by the ids taken.
RECURSIVE buildNode(_, _, _)
RECURSIVE buildMembers(_, _, _)
buildMembers(kids, nodes, used) ==
  IF kids = <<>> THEN [childIds |-> <<>>, nodes |-> nodes, used |-> used]
  ELSE Let(buildNode(Head(kids).val, nodes, used), LAMBDA first :
       Let(buildMembers(Tail(kids), first.nodes, first.used), LAMBDA rest :
         [childIds |-> <<first.id>> \o rest.childIds, nodes |-> rest.nodes,
          used |-> rest.used]))

buildNode(value, nodes, used) ==
  Let(createId(used), LAMBDA id :
  Let(buildMembers(value.kids, nodes, used \cup {id}), LAMBDA built :
    IF value.t = "array"
      THEN [id |-> id, used |-> built.used,
            nodes |-> built.nodes @@ (id :> ArrayNode(id, built.childIds))]
    ELSE IF value.t = "object"
      THEN [id |-> id, used |-> built.used,
            nodes |-> built.nodes @@
              (id :> ObjectNode(id, [i \in DOMAIN value.kids |->
                                       Entry(value.kids[i].key, built.childIds[i])]))]
    ELSE [id |-> id, used |-> used \cup {id},
          nodes |-> nodes @@
            (id :> IF value.t = "null" THEN ScalarNode(id, "null", sEmpty)
                   ELSE IF value.t = "number" THEN ScalarNode(id, "number", value.v)
                   ELSE IF value.t = "boolean" THEN ScalarNode(id, "boolean", value.v)
                   ELSE ScalarNode(id, "string", ToJsString(value)))]))

\* buildDocumentFromValue; used holds the ids the state already holds.
buildDocumentFromValue(value, used) ==
  Let(buildNode(value, <<>>, used), LAMBDA built :
    [rootId |-> built.id, nodes |-> built.nodes])

RECURSIVE buildValue(_, _)
RECURSIVE buildEntries(_, _, _)
buildEntries(doc, entries, acc) ==
  IF entries = <<>> THEN acc
  ELSE buildEntries(doc, Tail(entries),
                    ObjAssign(acc, Head(entries).key, buildValue(doc, Head(entries).childId)))

buildValue(doc, nodeId) ==
  IF ~Has(doc, nodeId) THEN JsNull
  ELSE Let(doc.nodes[nodeId], LAMBDA node :
         IF node.type = "object"
           THEN [t |-> "object", v |-> sEmpty, kids |-> buildEntries(doc, node.entries, <<>>)]
         ELSE IF node.type = "array"
           THEN JsArray([i \in DOMAIN node.items |-> buildValue(doc, node.items[i])])
         ELSE IF node.type = "null" THEN JsNull
         ELSE Scalar(node.type, node.value))

documentToJson(doc) == buildValue(doc, doc.rootId)


\* ------------------------------------------------------------ editor state

NoNotice == [type |-> "", message |-> ""]
ErrorNotice(message) == [type |-> "error", message |-> message]
SuccessNotice(message) == [type |-> "success", message |-> message]

\* preSearchExpanded?: Set<string>
Undefined == [defined |-> FALSE, ids |-> {}]
Defined(set) == [defined |-> TRUE, ids |-> set]

\* The capacity of each history stack.
HistoryLimit == 50

\* A slice that keeps the n newest entries instead: array.slice(-n).
SliceOldest(seq, n) == SubSeq(seq, IF Len(seq) < n THEN 1 ELSE Len(seq) - n + 1, Len(seq))

\* array.slice(0, n)
SliceNothing(seq, n) == seq

Slice(seq, n) == SubSeq(seq, 1, IF Len(seq) < n THEN Len(seq) ELSE n)

\* array[array.length - 1], undefined for the empty array
Last(seq) == IF seq = <<>> THEN NoId ELSE seq[Len(seq)]

\* structuredClone: the copy is equal to, and shares nothing with, what it
\* copies; values carry no identity here, so the copy is the value.
structuredClone(doc) == doc

snapshotState(st) ==
  [doc |-> IF st.doc # NoDoc THEN structuredClone(st.doc) ELSE NoDoc,
   rawText |-> st.rawText,
   expanded |-> st.expanded,
   selectedId |-> st.selectedId,
   preSearchExpanded |-> st.preSearchExpanded,
   anchorPath |-> st.anchorPath]

\* Every id a document holds: its nodes and what they refer to.
DocIds(doc) ==
  {doc.rootId} \cup DOMAIN doc.nodes
    \cup UNION {Range(ChildIds(doc.nodes[n])) : n \in DOMAIN doc.nodes}

EntryIds(entry) ==
  DocIds(entry.doc) \cup entry.expanded \cup {entry.selectedId}
    \cup entry.preSearchExpanded.ids \cup Range(entry.anchorPath)

\* Every id the state holds anywhere; createId returns none of them.
UsedIds(st) ==
  EntryIds(snapshotState(st)) \cup Range(st.searchMatches)
    \cup UNION {EntryIds(st.undoStack[i]) : i \in DOMAIN st.undoStack}
    \cup UNION {EntryIds(st.redoStack[i]) : i \in DOMAIN st.redoStack}
    \cup {st.snippets[i].id : i \in DOMAIN st.snippets}
    \cup DOMAIN st.snippetContents

\* parents[childId] = node.id for every entry and item; undefined (NoId)
\* for an id that no node refers to.
buildParentMap(doc) ==
  [child \in UNION {Range(ChildIds(doc.nodes[n])) : n \in DOMAIN doc.nodes} |->
     CHOOSE n \in DOMAIN doc.nodes : child \in Range(ChildIds(doc.nodes[n]))]

ParentOf(parents, id) == IF id \in DOMAIN parents THEN parents[id] ELSE NoId

\* The chain target, parent, grandparent, ... that the while (current)
\* loops walk, target first.
RECURSIVE ChainUp(_, _, _)
ChainUp(parents, current, fuel) ==
  IF current = NoId \/ fuel = 0 THEN <<>>
  ELSE <<current>> \o ChainUp(parents, ParentOf(parents, current), fuel - 1)

\* An expansion set left as it is.
expandNothing(targetId, parents, expanded) == expanded

expandAncestors(targetId, parents, expanded) ==
  expanded \cup Range(ChainUp(parents, targetId, Cardinality(DOMAIN parents) + 1))

RECURSIVE collectSubtreeIds(_, _)
collectSubtreeIds(doc, rootId) ==
  IF ~Has(doc, rootId) THEN {}
  ELSE {rootId} \cup
       UNION {collectSubtreeIds(doc, c) : c \in Range(ChildIds(doc.nodes[rootId]))}

Reverse(seq) == [i \in DOMAIN seq |-> seq[Len(seq) + 1 - i]]

\* The walk from the target up, left in the order it was collected.
buildAnchorPathUp(doc, targetId) ==
  Let(buildParentMap(doc), LAMBDA parents :
  Let(ChainUp(parents, targetId, Cardinality(DOMAIN parents) + 1), LAMBDA result :
    IF result = <<>> \/ result[1] # doc.rootId THEN <<>> ELSE result))

buildAnchorPath(doc, targetId) ==
  Let(buildParentMap(doc), LAMBDA parents :
  Let(Reverse(ChainUp(parents, targetId, Cardinality(DOMAIN parents) + 1)), LAMBDA result :
    IF result = <<>> \/ result[1] # doc.rootId THEN <<>> ELSE result))

\* An anchor path that is kept as it is.
keepAnchorPath(doc, anchorPath) == anchorPath

resolveAnchorPath(doc, anchorPath) ==
  IF Last(anchorPath) = NoId THEN <<doc.rootId>>
  ELSE Let(buildAnchorPath(doc, Last(anchorPath)), LAMBDA path :
         IF path # <<>> THEN path ELSE <<doc.rootId>>)

\* findSearchMatches' visit: the matches under nodeId, in visiting order.
RECURSIVE visit(_, _, _)
RECURSIVE visitEntries(_, _, _)
RECURSIVE visitItems(_, _, _)
visitEntries(doc, lower, entries) ==
  IF entries = <<>> THEN <<>>
  ELSE (IF includes(toLowerCase(Head(entries).key), lower)
          THEN <<Head(entries).childId>> ELSE <<>>)
       \o visit(doc, lower, Head(entries).childId)
       \o visitEntries(doc, lower, Tail(entries))

visitItems(doc, lower, items) ==
  IF items = <<>> THEN <<>>
  ELSE visit(doc, lower, Head(items)) \o visitItems(doc, lower, Tail(items))

visit(doc, lower, nodeId) ==
  IF ~Has(doc, nodeId) THEN <<>>
  ELSE Let(doc.nodes[nodeId], LAMBDA node :
         IF node.type = "object" THEN visitEntries(doc, lower, node.entries)
         ELSE IF node.type = "array" THEN visitItems(doc, lower, node.items)
         ELSE IF includes(toLowerCase(IF node.type = "null" THEN sNull ELSE node.value),
                          lower)
           THEN <<node.id>>
         ELSE <<>>)

findSearchMatches(doc, query, rootId) == visit(doc, toLowerCase(query), rootId)

\* A lookup that finds nothing.
indexOfNothing(seq, x) == 0 - 1

\* array.indexOf(x): the first index (from 0) holding x, or -1
indexOf(seq, x) ==
  IF \E i \in DOMAIN seq : seq[i] = x
    THEN (CHOOSE i \in DOMAIN seq : seq[i] = x /\ \A j \in 1..(i - 1) : seq[j] # x) - 1
    ELSE 0 - 1

\* array[i] for an index counted from 0, undefined outside the array
At(seq, i) == IF i + 1 \in DOMAIN seq THEN seq[i + 1] ELSE NoId

\* applySearch(state, docOverride, anchorOverride); a call that leaves an
\* override out passes the state's own field, which is what ?? selects.
applySearch(st, doc, anchorPath) ==
  IF doc = NoDoc \/ trim(st.searchQuery) = sEmpty
    THEN [st EXCEPT !.searchMatches = <<>>, !.activeMatch = 0 - 1, !.anchorPath = anchorPath]
  ELSE
    Let(findSearchMatches(doc, trim(st.searchQuery),
                          IF Last(anchorPath) # NoId THEN Last(anchorPath) ELSE doc.rootId),
        LAMBDA matches :
    Let(At(st.searchMatches, st.activeMatch), LAMBDA currentActiveId :
    Let(IF currentActiveId # NoId THEN indexOf(matches, currentActiveId) ELSE 0 - 1,
        LAMBDA nextActiveIndex :
    Let(IF nextActiveIndex >= 0 THEN nextActiveIndex
        ELSE IF matches # <<>> THEN 0 ELSE 0 - 1,
        LAMBDA activeMatch :
      [st EXCEPT !.searchMatches = matches,
                 !.activeMatch = activeMatch,
                 !.expanded =
                    (IF At(matches, activeMatch) # NoId
                       THEN expandAncestors(At(matches, activeMatch), buildParentMap(doc),
                                            st.expanded)
                       ELSE st.expanded) \cup Range(anchorPath),
                 !.anchorPath = anchorPath]))))


\* ------------------------------------------------------ document operations

\* withHistory(state, next, push)
withHistory(st, next, push) ==
  IF ~push THEN next
  ELSE [next EXCEPT !.undoStack = Slice(<<snapshotState(st)>> \o st.undoStack, HistoryLimit),
                    !.redoStack = <<>>]

finalizeDocumentChange(st, doc, focusId) ==
  Let(formatJson(documentToJson(doc), st.indent), LAMBDA formatted :
  Let(resolveAnchorPath(doc, st.anchorPath), LAMBDA nextAnchorPath :
    withHistory(st,
                applySearch(
                  [st EXCEPT !.doc = doc,
                             !.rawText = formatted,
                             !.lastValidText = formatted,
                             !.parseError = NoParseError,
                             !.selectedId = IF focusId # NoId THEN focusId ELSE st.selectedId,
                             !.anchorPath = nextAnchorPath],
                  doc, nextAnchorPath),
                TRUE)))

\* A new node that is null whatever type was asked for.
NewNullNode(childId, newType) == ScalarNode(childId, "null", sEmpty)

\* The default payload of a new node of each type.
NewNode(childId, newType) ==
  CASE newType = "object" -> ObjectNode(childId, <<>>)
    [] newType = "array" -> ArrayNode(childId, <<>>)
    [] newType = "string" -> ScalarNode(childId, "string", sEmpty)
    [] newType = "number" -> ScalarNode(childId, "number", sZero)
    [] newType = "boolean" -> ScalarNode(childId, "boolean", sFalse)
    [] OTHER -> ScalarNode(childId, "null", sEmpty)

\* A lookup that never finds a duplicate key.
HasKeyNever(entries, key) == FALSE

\* parent.entries.find((entry) => entry.key === key)
HasKey(entries, key) == \E i \in DOMAIN entries : entries[i].key = key

\* addNodeToDocument; key is sEmpty when the command carries none.
addNodeToDocument(st, parentId, parentType, key, newType) ==
  IF st.doc = NoDoc THEN st
  ELSE IF ~Has(st.doc, parentId) THEN st
  ELSE
    Let(structuredClone(st.doc), LAMBDA doc :
    Let(doc.nodes[parentId], LAMBDA parent :
    Let(createId(UsedIds(st)), LAMBDA childId :
    Let(trim(key), LAMBDA trimmed :
      IF parentType = "object" /\ parent.type # "object" THEN st
      ELSE IF parentType = "object" /\ trimmed = sEmpty
        THEN [st EXCEPT !.notice = ErrorNotice("Key is required for object properties.")]
      ELSE IF parentType = "object" /\ HasKey(parent.entries, trimmed)
        THEN [st EXCEPT !.notice = ErrorNotice("Duplicate key inside this object.")]
      ELSE IF parentType # "object" /\ parent.type # "array" THEN st
      ELSE finalizeDocumentChange(st,
             [doc EXCEPT !.nodes =
                (childId :> NewNode(childId, newType)) @@
                [doc.nodes EXCEPT ![parentId] =
                   IF parentType = "object"
                     THEN [parent EXCEPT !.entries = Append(parent.entries,
                                                            Entry(trimmed, childId))]
                     ELSE [parent EXCEPT !.items = Append(parent.items, childId)]]],
             childId)))))

\* array.filter(keep)
Filter(seq, keep(_)) == SelectSeq(seq, keep)

\* A removal that leaves the descendants in the node map.
removeNodeOnly(nodes, id) == [n \in DOMAIN nodes \ {id} |-> nodes[n]]

\* deleteNode's removeSubtree: the members are removed first, then the node.
RECURSIVE removeSubtree(_, _)
RECURSIVE removeEach(_, _)
removeEach(nodes, childIds) ==
  IF childIds = <<>> THEN nodes
  ELSE removeEach(removeSubtree(nodes, Head(childIds)), Tail(childIds))

removeSubtree(nodes, id) ==
  IF id \notin DOMAIN nodes THEN nodes
  ELSE Let(removeEach(nodes, ChildIds(nodes[id])), LAMBDA after :
         [n \in DOMAIN after \ {id} |-> after[n]])

\* A parent whose sequence still refers to the deleted child.
WithChildKept(node, childId) == node

\* The parent's sequence without the entries that point at childId.
WithoutChild(node, childId) ==
  IF node.type = "object"
    THEN [node EXCEPT !.entries = Filter(node.entries, LAMBDA e : e.childId # childId)]
  ELSE IF node.type = "array"
    THEN [node EXCEPT !.items = Filter(node.items, LAMBDA id : id # childId)]
  ELSE node

\* deleteNode: parent was looked up before the removal, so its sequence is
\* filtered even when the removal took the parent itself out of the map.
deleteNode(st, parentId, childId) ==
  IF st.doc = NoDoc THEN st
  ELSE IF ~Has(st.doc, parentId) THEN st
  ELSE
    Let(structuredClone(st.doc), LAMBDA doc :
    Let(removeSubtree(doc.nodes, childId), LAMBDA removed :
      finalizeDocumentChange(st,
        [doc EXCEPT !.nodes =
           [n \in DOMAIN removed |->
              IF n = parentId THEN WithoutChild(removed[n], childId) ELSE removed[n]]],
        parentId)))

\* array.splice(index, 1) then array.splice(target, 0, childId)
\* A splice that takes the item out and does not put it back.
SpliceOut(items, index, target, childId) ==
  SubSeq(items, 1, index) \o SubSeq(items, index + 2, Len(items))

\* A splice that puts the item back at the front.
SpliceFront(items, index, target, childId) ==
  <<childId>> \o SubSeq(items, 1, index) \o SubSeq(items, index + 2, Len(items))

Splice(items, index, target, childId) ==
  Let(SubSeq(items, 1, index) \o SubSeq(items, index + 2, Len(items)), LAMBDA without :
    SubSeq(without, 1, target) \o <<childId>> \o SubSeq(without, target + 1, Len(without)))

moveArrayItem(st, parentId, childId, direction) ==
  IF st.doc = NoDoc THEN st
  ELSE IF ~Has(st.doc, parentId) \/ st.doc.nodes[parentId].type # "array" THEN st
  ELSE
    Let(structuredClone(st.doc), LAMBDA doc :
    Let(doc.nodes[parentId].items, LAMBDA items :
    Let(indexOf(items, childId), LAMBDA index :
      IF index = 0 - 1 THEN st
      ELSE IF index + direction < 0 \/ index + direction >= Len(items) THEN st
      ELSE finalizeDocumentChange(st,
             [doc EXCEPT !.nodes[parentId].items =
                Splice(items, index, index + direction, childId)],
             childId))))

\* A lookup that never finds a sibling with the key.
KeyTakenNever(entries, key, childId) == FALSE

\* parent.entries.find((entry) => entry.key === key && entry.childId !== childId)
KeyTaken(entries, key, childId) ==
  \E i \in DOMAIN entries : entries[i].key = key /\ entries[i].childId # childId

renameKey(st, parentId, childId, newKey) ==
  IF st.doc = NoDoc THEN st
  ELSE IF trim(newKey) = sEmpty
    THEN [st EXCEPT !.notice = ErrorNotice("Key cannot be empty.")]
  ELSE IF ~Has(st.doc, parentId) \/ st.doc.nodes[parentId].type # "object" THEN st
  ELSE
    Let(structuredClone(st.doc), LAMBDA doc :
    Let(doc.nodes[parentId].entries, LAMBDA entries :
    Let(trim(newKey), LAMBDA trimmed :
      IF KeyTaken(entries, trimmed, childId)
        THEN [st EXCEPT !.notice = ErrorNotice("Keys must be unique within the object.")]
      ELSE IF \A i \in DOMAIN entries : entries[i].childId # childId THEN st
      ELSE finalizeDocumentChange(st,
             [doc EXCEPT !.nodes[parentId].entries =
                [i \in DOMAIN entries |->
                   IF entries[i].childId = childId
                        /\ \A j \in 1..(i - 1) : entries[j].childId # childId
                     THEN Entry(trimmed, childId)
                     ELSE entries[i]]],
             childId))))

\* The node an edit of the given type writes.
EditedNode(node, type, value) ==
  CASE type = "string" ->
         ScalarNode(node.id, "string", IF value.t = "null" THEN sEmpty ELSE ToJsString(value))
    [] type = "number" -> ScalarNode(node.id, "number", value.v)
    [] type = "boolean" ->
         ScalarNode(node.id, "boolean", IF ToJsBoolean(value) THEN sTrue ELSE sFalse)
    [] type = "null" -> ScalarNode(node.id, "null", sEmpty)
    [] OTHER -> node

\* editPrimitive; newType is "" when the command carries none.
editPrimitive(st, nodeId, value, newType) ==
  IF st.doc = NoDoc THEN st
  ELSE IF ~Has(st.doc, nodeId) \/ st.doc.nodes[nodeId].type \in {"object", "array"} THEN st
  ELSE
    Let(structuredClone(st.doc), LAMBDA doc :
    Let(IF newType # "" THEN newType ELSE doc.nodes[nodeId].type, LAMBDA type :
      IF type = "number" /\ (value.t # "number" \/ IsNaN(value))
        THEN [st EXCEPT !.notice = ErrorNotice("Numbers must be valid JSON numbers.")]
        ELSE finalizeDocumentChange(st,
               [doc EXCEPT !.nodes[nodeId] = EditedNode(doc.nodes[nodeId], type, value)],
               nodeId)))

\* Entries left in the order they are in.
KeepEntries(entries) == entries

\* Entries turned end for end instead of sorted.
TurnEntries(entries) == Reverse(entries)

\* entries.sort((a, b) => a.key.localeCompare(b.key)): the sort is stable.
RECURSIVE SortEntries(_)
SortEntries(entries) ==
  IF entries = <<>> THEN <<>>
  ELSE
    Let(SortEntries(SubSeq(entries, 1, Len(entries) - 1)), LAMBDA sorted :
    Let(entries[Len(entries)], LAMBDA e :
    Let(Cardinality({i \in DOMAIN sorted :
                       \A j \in 1..i : localeCompare(sorted[j].key, e.key) <= 0}),
        LAMBDA n :
      SubSeq(sorted, 1, n) \o <<e>> \o SubSeq(sorted, n + 1, Len(sorted)))))

\* sortKeys' sortObject
RECURSIVE sortObject(_, _)
RECURSIVE sortEach(_, _)
sortEach(nodes, childIds) ==
  IF childIds = <<>> THEN nodes
  ELSE sortEach(sortObject(nodes, Head(childIds)), Tail(childIds))

sortObject(nodes, nodeId) ==
  IF nodeId \notin DOMAIN nodes THEN nodes
  ELSE IF nodes[nodeId].type = "object"
    THEN Let([nodes EXCEPT ![nodeId].entries = SortEntries(nodes[nodeId].entries)],
             LAMBDA sorted : sortEach(sorted, ChildIds(sorted[nodeId])))
  ELSE IF nodes[nodeId].type = "array" THEN sortEach(nodes, nodes[nodeId].items)
  ELSE nodes

sortKeys(st, scope) ==
  IF st.doc = NoDoc THEN st
  ELSE
    Let(structuredClone(st.doc), LAMBDA doc :
      finalizeDocumentChange(st,
        [doc EXCEPT !.nodes =
           IF scope = "all" \/ (scope = "selected" /\ st.selectedId # NoId)
             THEN sortObject(doc.nodes, IF scope = "all" THEN doc.rootId ELSE st.selectedId)
             ELSE doc.nodes],
        st.selectedId))

\* The state a successful parse builds before history is pushed.
Parsed(st, value) ==
  Let(buildDocumentFromValue(value, UsedIds(st)), LAMBDA doc :
  Let(formatJson(value, st.indent), LAMBDA formatted :
    applySearch([st EXCEPT !.doc = doc,
                           !.parseError = NoParseError,
                           !.rawText = formatted,
                           !.lastValidText = formatted,
                           !.expanded = {doc.rootId},
                           !.selectedId = doc.rootId,
                           !.anchorPath = <<doc.rootId>>,
                           !.preSearchExpanded =
                              IF trim(st.searchQuery) # sEmpty
                                THEN Defined({doc.rootId}) ELSE Undefined],
                doc, <<doc.rootId>>)))

applyParse(st, text) ==
  Let(parseJson(text), LAMBDA parsed :
    IF ~parsed.ok
      THEN [st EXCEPT !.parseError = parsed.error]
      ELSE withHistory(st, Parsed(st, parsed.value), TRUE))

\* ----------------------------------------------------------------- reducer

\* a % n of JavaScript: the sign of the dividend
JsRemNothing(a, n) == a

JsRem(a, n) == IF a >= 0 THEN a % n ELSE 0 - ((0 - a) % n)

\* The state buildInitialState returns for a document and its text: the
\* default state (lines 859-882) and a restored session (lines 823-845)
\* have this one shape.
InitialState(doc, text, snippets, snippetContents) ==
  [rawText |-> text,
   lastValidText |-> text,
   doc |-> doc,
   parseError |-> NoParseError,
   expanded |-> {doc.rootId},
   selectedId |-> doc.rootId,
   anchorPath |-> <<doc.rootId>>,
   searchQuery |-> sEmpty,
   searchMatches |-> <<>>,
   activeMatch |-> 0 - 1,
   searchFilterOnly |-> FALSE,
   outputMode |-> "pretty",
   indent |-> 2,
   undoStack |-> <<>>,
   redoStack |-> <<>>,
   autoParse |-> FALSE,
   autoSaveEnabled |-> TRUE,
   snippets |-> snippets,
   snippetContents |-> snippetContents,
   notice |-> NoNotice,
   preSearchExpanded |-> Undefined]

\* UNDO and REDO restore these fields from a history entry.
Restore(st, entry) ==
  [st EXCEPT !.doc = entry.doc,
             !.rawText = entry.rawText,
             !.expanded = entry.expanded,
             !.selectedId = entry.selectedId,
             !.anchorPath = entry.anchorPath,
             !.parseError = NoParseError,
             !.preSearchExpanded = entry.preSearchExpanded]

\* The state UNDO or REDO builds from a history entry and the two stacks.
\* A restore that leaves the search results as they were.
TravelStale(st, entry, undoStack, redoStack) ==
  [Restore(st, entry) EXCEPT !.undoStack = undoStack, !.redoStack = redoStack]

Travel(st, entry, undoStack, redoStack) ==
  Let([Restore(st, entry) EXCEPT !.undoStack = undoStack, !.redoStack = redoStack],
      LAMBDA restored : applySearch(restored, restored.doc, restored.anchorPath))

\* An undo that does not look whether there is an entry to restore.
undoUnguarded(st) ==
  Travel(st, snapshotState(st), <<>>,
         Slice(<<snapshotState(st)>> \o st.redoStack, HistoryLimit))

undo(st) ==
  IF st.undoStack = <<>> THEN st
  ELSE Travel(st, Head(st.undoStack), Tail(st.undoStack),
              Slice(<<snapshotState(st)>> \o st.redoStack, HistoryLimit))

redo(st) ==
  IF st.redoStack = <<>> THEN st
  ELSE Travel(st, Head(st.redoStack),
              Slice(<<snapshotState(st)>> \o st.undoStack, HistoryLimit),
              Tail(st.redoStack))

setSearchQuery(st, query) ==
  Let(trim(st.searchQuery) # sEmpty /\ trim(query) = sEmpty /\ st.preSearchExpanded.defined,
      LAMBDA restoring :
  Let([st EXCEPT
         !.searchQuery = query,
         !.expanded = IF restoring THEN st.preSearchExpanded.ids ELSE st.expanded,
         !.preSearchExpanded =
            IF restoring THEN Undefined
            ELSE IF trim(st.searchQuery) = sEmpty /\ trim(query) # sEmpty
              THEN Defined(st.expanded)
            ELSE st.preSearchExpanded],
      LAMBDA next : applySearch(next, next.doc, next.anchorPath)))

moveMatch(st, direction) ==
  IF st.searchMatches = <<>> THEN st
  ELSE
    Let(JsRem(st.activeMatch + direction + Len(st.searchMatches), Len(st.searchMatches)),
        LAMBDA nextIndex :
    Let(At(st.searchMatches, nextIndex), LAMBDA target :
      [st EXCEPT !.activeMatch = nextIndex,
                 !.expanded =
                    (IF st.doc # NoDoc
                       THEN expandAncestors(target, buildParentMap(st.doc), st.expanded)
                       ELSE st.expanded) \cup Range(st.anchorPath),
                 !.selectedId = target]))

\* An anchoring that is finished as a document change is.
anchorToAsChange(st, nodeId) == finalizeDocumentChange(st, st.doc, nodeId)

anchorTo(st, nodeId) ==
  IF st.doc = NoDoc THEN st
  ELSE
    Let(buildAnchorPath(st.doc, IF nodeId # NoId THEN nodeId ELSE st.doc.rootId),
        LAMBDA path :
      IF path = <<>> THEN st
      ELSE applySearch(
             [st EXCEPT
                !.anchorPath = path,
                !.expanded = st.expanded \cup Range(path),
                !.selectedId =
                   IF st.selectedId \in collectSubtreeIds(st.doc, Last(path))
                     THEN st.selectedId ELSE Last(path)],
             st.doc, path))

editorReducer(st, action) ==
  CASE action.type = "SET_RAW_TEXT" ->
         Let([st EXCEPT !.rawText = action.text, !.parseError = NoParseError],
             LAMBDA typed : IF st.autoParse THEN applyParse(typed, action.text) ELSE typed)
    [] action.type = "PARSE_TEXT" -> applyParse(st, st.rawText)
    [] action.type = "LOAD_TEXT" -> applyParse(st, action.text)
    [] action.type = "EDIT_PRIMITIVE" ->
         editPrimitive(st, action.nodeId, action.value, action.newType)
    [] action.type = "RENAME_KEY" ->
         renameKey(st, action.parentId, action.childId, action.newKey)
    [] action.type = "ADD_NODE" ->
         addNodeToDocument(st, action.parentId, action.parentType, action.key, action.newType)
    [] action.type = "DELETE_NODE" ->
         deleteNode(st, action.parentId, action.childId)
    [] action.type = "SET_SELECTED" ->
         [st EXCEPT !.selectedId = action.nodeId]
    [] action.type = "TOGGLE_EXPANDED" ->
         [st EXCEPT !.expanded =
                    IF action.nodeId \in st.expanded
                      THEN st.expanded \ {action.nodeId}
                      ELSE st.expanded \cup {action.nodeId}]
    [] action.type = "EXPAND_ALL" ->
         IF st.doc = NoDoc THEN st
                 ELSE [st EXCEPT !.expanded =
                         collectSubtreeIds(st.doc,
                            IF Last(st.anchorPath) # NoId
                              THEN Last(st.anchorPath) ELSE st.doc.rootId)
                         \cup Range(st.anchorPath)]
    [] action.type = "COLLAPSE_ALL" ->
         IF st.doc = NoDoc THEN st
                 ELSE [st EXCEPT !.expanded =
                         IF st.anchorPath # <<>>
                           THEN Range(st.anchorPath) ELSE {st.doc.rootId}]
    [] action.type = "SET_SEARCH_QUERY" ->
         setSearchQuery(st, action.query)
    [] action.type = "TOGGLE_FILTER_MODE" ->
         applySearch([st EXCEPT !.searchFilterOnly = action.enabled],
                             st.doc, st.anchorPath)
    [] action.type = "MOVE_MATCH" ->
         moveMatch(st, action.direction)
    [] action.type = "SET_OUTPUT_MODE" ->
         [st EXCEPT !.outputMode = action.mode]
    [] action.type = "SET_INDENT" ->
         IF st.doc = NoDoc THEN [st EXCEPT !.indent = action.indent]
                 ELSE [st EXCEPT
                         !.indent = action.indent,
                         !.rawText = formatJson(documentToJson(st.doc), action.indent),
                         !.lastValidText = formatJson(documentToJson(st.doc), action.indent)]
    [] action.type = "SORT_KEYS" -> sortKeys(st, action.scope)
    [] action.type = "MOVE_ARRAY_ITEM" ->
         moveArrayItem(st, action.parentId, action.childId, action.direction)
    [] action.type = "UNDO" -> undo(st)
    [] action.type = "REDO" -> redo(st)
    [] action.type = "SET_AUTOPARSE" ->
         [st EXCEPT !.autoParse = action.enabled]
    [] action.type = "SET_AUTOSAVE" ->
         [st EXCEPT !.autoSaveEnabled = action.enabled]
    [] action.type = "SAVE_SNIPPET" ->
         IF st.doc = NoDoc
           THEN [st EXCEPT !.notice = ErrorNotice("Load or parse JSON first.")]
           ELSE [st EXCEPT
                           !.snippets =
                              <<[id |-> createId(UsedIds(st)),
                                 name |-> IF action.name # "" THEN action.name
                                          ELSE "Untitled snippet",
                                 updatedAt |-> action.now]>> \o st.snippets,
                           !.snippetContents = (createId(UsedIds(st)) :> st.rawText) @@ st.snippetContents,
                           !.notice = SuccessNotice("Snippet saved locally.")]
    [] action.type = "LOAD_SNIPPET" ->
         IF action.id \notin DOMAIN st.snippetContents
              \/ st.snippetContents[action.id] = EmptyText
           THEN st
           ELSE applyParse(st, st.snippetContents[action.id])
    [] action.type = "RENAME_SNIPPET" ->
         [st EXCEPT !.snippets =
                    [i \in DOMAIN st.snippets |->
                       IF st.snippets[i].id = action.id
                         THEN [st.snippets[i] EXCEPT !.name = action.name,
                                                     !.updatedAt = action.now]
                         ELSE st.snippets[i]]]
    [] action.type = "DELETE_SNIPPET" ->
         [st EXCEPT
                    !.snippets = Filter(st.snippets, LAMBDA s : s.id # action.id),
                    !.snippetContents =
                       [id \in DOMAIN st.snippetContents \ {action.id} |->
                          st.snippetContents[id]]]
    [] action.type = "OVERWRITE_SNIPPET" ->
         IF st.doc = NoDoc
           THEN [st EXCEPT !.notice = ErrorNotice("Load or parse JSON first.")]
         ELSE IF \A i \in DOMAIN st.snippets : st.snippets[i].id # action.id
           THEN st
         ELSE [st EXCEPT
                         !.snippets =
                            [i \in DOMAIN st.snippets |->
                               IF st.snippets[i].id = action.id
                                 THEN [st.snippets[i] EXCEPT !.updatedAt = action.now]
                                 ELSE st.snippets[i]],
                         !.snippetContents = (action.id :> st.rawText) @@ st.snippetContents,
                         !.notice = SuccessNotice("Snippet updated.")]
    [] action.type = "SET_NOTICE" ->
         [st EXCEPT !.notice = action.notice]
    [] action.type = "ANCHOR_TO" -> anchorTo(st, action.nodeId)
    [] OTHER -> st


\* ------------------------------------------------------- the state machine

\* {"a": 1, "b": [true, null]}
SmallJson ==
  JsObject(<<Member(sA, JsNumber(sOne)),
             Member(sB, JsArray(<<JsBoolean(TRUE), JsNull>>))>>)

\* The documents a session starts from.
InitValues == {SmallJson}

\* A text as typed: {"b": "a"} with spacing of the user's own.
TypedText ==
  [valid |-> TRUE, tree |-> JsObject(<<Member(sB, JsString(sA))>>), layout |-> FreeLayout]

\* {"__proto__": 1, "a": [null]} as JSON.stringify lays it out.
ProtoText ==
  [valid |-> TRUE,
   tree |-> [t |-> "object", v |-> sEmpty,
             kids |-> <<Member(sProto, JsNumber(sOne)), Member(sA, JsArray(<<JsNull>>))>>],
   layout |-> 2]

\* The texts typed, loaded or stored as a snippet.
TextInputs == {InvalidText, TypedText}

\* An id that is not in the document (nor anywhere in the state).
MissingId == createId(UsedIds(state))

KeyInputs == {sUpperA, sPadB}
\* The value and the newType of an edit: a number typed into the editor of
\* the node ("" is no newType), and the two conversions of the type menu.
EditInputs ==
  {<<JsNumber(sZero), "">>, <<JsNumber(sInfinity), "number">>, <<JsString(sB), "string">>}
AddTypes == {"object", "string"}


\* The scalar nodes and the containers of a document.
Scalars(doc) == {id \in NodeIds(doc) : doc.nodes[id].type \notin {"object", "array"}}
Containers(doc) == NodeIds(doc) \ Scalars(doc)

\* The (parent, child) pairs of a document.
ChildPairs(doc) ==
  {<<p, c>> \in NodeIds(doc) \X NodeIds(doc) : c \in Range(ChildIds(doc.nodes[p]))}

\* Targets a structural command names: a child of its parent, or an id that
\* is not in the document.
TargetPairs(doc) ==
  ChildPairs(doc) \cup {<<MissingId, doc.rootId>>, <<doc.rootId, MissingId>>}

Current(st) == [doc |-> st.doc, rawText |-> st.rawText]

\* The documents and texts of the run, one per history position: a command
\* that pushes history starts a new position, UNDO and REDO step back and
\* forth, any other command leaves the position.  A command other than UNDO
\* and REDO that changes the undo stack or the document has pushed history;
\* made counts these commands.
Pushes(action, st, next) ==
  /\ action.type \notin {"UNDO", "REDO"}
  /\ next.undoStack # st.undoStack \/ next.doc # st.doc

Track(action, st, next) ==
  IF action.type = "UNDO"
    THEN (IF st.undoStack # <<>> THEN [hist EXCEPT !.pos = @ - 1] ELSE hist)
  ELSE IF action.type = "REDO"
    THEN (IF st.redoStack # <<>> THEN [hist EXCEPT !.pos = @ + 1] ELSE hist)
  ELSE IF Pushes(action, st, next)
    THEN [docs |-> SubSeq(hist.docs, 1, hist.pos) \o <<Current(next)>>,
          pos |-> hist.pos + 1,
          made |-> hist.made + 1]
  ELSE [hist EXCEPT !.docs[hist.pos] = Current(next)]

\* One command of a session in which at most budget commands push history.
Step(action, budget) ==
  \E next \in {editorReducer(state, action)} :
    /\ Cardinality(NodeIds(next.doc)) <= MaxNodes
    /\ Pushes(action, state, next) => hist.made < budget
    /\ state' = next
    /\ hist' = Track(action, state, next)

Dispatch(action) == Step(action, MaxHist)

\* A session: the document built from a value, its text, and one snippet
\* in the store.
Init ==
  \E value \in InitValues :
    \E doc \in {buildDocumentFromValue(value, {})} :
      \E id \in {createId(DocIds(doc))} :
        /\ state = InitialState(doc, formatJson(value, 2),
                                <<[id |-> id, name |-> "Snippet", updatedAt |-> 0]>>,
                                id :> TypedText)
        /\ hist = [docs |-> <<Current(state)>>, pos |-> 1, made |-> 0]

SET_RAW_TEXT ==
  \E text \in TextInputs :
    /\ Dispatch([type |-> "SET_RAW_TEXT", text |-> text])

PARSE_TEXT ==
  /\ Dispatch([type |-> "PARSE_TEXT"])

LOAD_TEXT ==
  \E text \in TextInputs :
    /\ Dispatch([type |-> "LOAD_TEXT", text |-> text])

EDIT_PRIMITIVE ==
  \E nodeId \in Scalars(state.doc) \cup {MissingId}, edit \in EditInputs :
    /\ Dispatch([type |-> "EDIT_PRIMITIVE", nodeId |-> nodeId, value |-> edit[1],
                 newType |-> edit[2]])

\* The boolean editor applied to a boolean node with the other value, in a
\* session of up to MaxSteps commands that push history.
EDIT_BOOLEAN ==
  \E nodeId \in {n \in Scalars(state.doc) : state.doc.nodes[n].type = "boolean"} :
    /\ Step([type |-> "EDIT_PRIMITIVE", nodeId |-> nodeId,
             value |-> JsBoolean(state.doc.nodes[nodeId].value # sTrue),
             newType |-> "boolean"],
            MaxSteps)

RENAME_KEY ==
  \E target \in TargetPairs(state.doc), newKey \in KeyInputs :
    /\ Dispatch([type |-> "RENAME_KEY", parentId |-> target[1], childId |-> target[2],
                 newKey |-> newKey])

ADD_NODE ==
  \E parentId \in Containers(state.doc) \cup {MissingId},
     kind \in ({"object"} \X KeyInputs) \cup {<<"array", sEmpty>>}, newType \in AddTypes :
    /\ Dispatch([type |-> "ADD_NODE", parentId |-> parentId, parentType |-> kind[1],
                 key |-> kind[2], newType |-> newType])

DELETE_NODE ==
  \E target \in ChildPairs(state.doc) \cup {<<MissingId, state.doc.rootId>>} :
    /\ Dispatch([type |-> "DELETE_NODE", parentId |-> target[1], childId |-> target[2]])

MOVE_ARRAY_ITEM ==
  \E target \in ChildPairs(state.doc) \cup {<<state.doc.rootId, MissingId>>},
     direction \in {0 - 1, 1} :
    /\ Dispatch([type |-> "MOVE_ARRAY_ITEM", parentId |-> target[1],
                 childId |-> target[2], direction |-> direction])

SORT_KEYS ==
  \E scope \in {"selected", "all"} :
    /\ Dispatch([type |-> "SORT_KEYS", scope |-> scope])

UNDO ==
  /\ Dispatch([type |-> "UNDO"])

REDO ==
  /\ Dispatch([type |-> "REDO"])

SET_AUTOPARSE ==
  \E enabled \in BOOLEAN :
    /\ Dispatch([type |-> "SET_AUTOPARSE", enabled |-> enabled])

\* The snippets of a session's store.
MaxSnippets == 2

\* Save snippet, of the text as it stands; the store has room for
\* MaxSnippets snippets.
SAVE_SNIPPET ==
  /\ Len(state.snippets) < MaxSnippets
  /\ Dispatch([type |-> "SAVE_SNIPPET", name |-> "Snippet", now |-> 1])

LOAD_SNIPPET ==
  \E id \in DOMAIN state.snippetContents \cup {MissingId} :
    /\ Dispatch([type |-> "LOAD_SNIPPET", id |-> id])

\* The notice's timeout in App clears it; it is scheduled only while a
\* notice is shown.
SET_NOTICE ==
  /\ state.notice # NoNotice
  /\ Dispatch([type |-> "SET_NOTICE", notice |-> NoNotice])

Next ==
  \/ LOAD_SNIPPET
  \/ PARSE_TEXT
  \/ EDIT_PRIMITIVE
  \/ RENAME_KEY
  \/ ADD_NODE
  \/ DELETE_NODE
  \/ MOVE_ARRAY_ITEM
  \/ SORT_KEYS
  \/ UNDO
  \/ REDO
  \/ SET_NOTICE

\* Every structural command, parse and load, undo and redo.
Spec == Init /\ [][Next]_vars

NextText ==
  \/ SET_RAW_TEXT
  \/ SET_AUTOPARSE
  \/ PARSE_TEXT
  \/ LOAD_TEXT
  \/ LOAD_SNIPPET
  \/ DELETE_NODE
  \/ UNDO
  \/ REDO

\* Typing with and without auto-parse, parse and load, undo and redo.
SpecText == Init /\ [][NextText]_vars

NextParse ==
  \/ SET_RAW_TEXT
  \/ SET_AUTOPARSE
  \/ PARSE_TEXT
  \/ LOAD_TEXT
  \/ SAVE_SNIPPET
  \/ LOAD_SNIPPET
  \/ UNDO

\* Typing, parsing and loading texts that may not parse, with snippets saved
\* of the text as typed.
SpecParse == Init /\ [][NextParse]_vars

NextHist ==
  \/ EDIT_BOOLEAN
  \/ UNDO
  \/ REDO

\* A long session of edits, undo and redo: long enough to fill the history.
SpecHist == Init /\ [][NextHist]_vars

\* ---------------------------------------------------------------- navigation

\* The commands of a session that browses: each selecting, expanding,
\* searching or anchoring command counts, as each command that pushes
\* history does.
MaxBrowse == 3

sU == <<"u">>

\* The queries typed into the search box: none, blank, one the keys match
\* and one that two values match.
QueryInputs == {sEmpty, sBlank, sUpperA, sU}

\* One browsing command of the session.
Browse(action) ==
  \E next \in {editorReducer(state, action)} :
    /\ hist.made < MaxBrowse
    /\ state' = next
    /\ hist' = [Track(action, state, next) EXCEPT !.made = hist.made + 1]

SET_SELECTED ==
  \E nodeId \in NodeIds(state.doc) :
    /\ Browse([type |-> "SET_SELECTED", nodeId |-> nodeId])

TOGGLE_EXPANDED ==
  \E nodeId \in Containers(state.doc) :
    /\ Browse([type |-> "TOGGLE_EXPANDED", nodeId |-> nodeId])

EXPAND_ALL ==
  /\ Browse([type |-> "EXPAND_ALL"])

COLLAPSE_ALL ==
  /\ Browse([type |-> "COLLAPSE_ALL"])

SET_SEARCH_QUERY ==
  \E query \in QueryInputs :
    /\ Browse([type |-> "SET_SEARCH_QUERY", query |-> query])

TOGGLE_FILTER_MODE ==
  \E enabled \in BOOLEAN :
    /\ Browse([type |-> "TOGGLE_FILTER_MODE", enabled |-> enabled])

MOVE_MATCH ==
  \E direction \in {0 - 1, 1} :
    /\ Browse([type |-> "MOVE_MATCH", direction |-> direction])

SET_OUTPUT_MODE ==
  \E mode \in {"pretty", "minified"} :
    /\ Browse([type |-> "SET_OUTPUT_MODE", mode |-> mode])

\* The anchor button of a node, the breadcrumb of the root (no node id), and
\* an id that is not in the document.
ANCHOR_TO ==
  \E nodeId \in NodeIds(state.doc) \cup {NoId, MissingId} :
    /\ Browse([type |-> "ANCHOR_TO", nodeId |-> nodeId])

NextNav ==
  \/ SET_SELECTED
  \/ TOGGLE_EXPANDED
  \/ EXPAND_ALL
  \/ COLLAPSE_ALL
  \/ SET_SEARCH_QUERY
  \/ TOGGLE_FILTER_MODE
  \/ MOVE_MATCH
  \/ SET_OUTPUT_MODE
  \/ ANCHOR_TO
  \/ DELETE_NODE
  \/ MOVE_ARRAY_ITEM
  \/ LOAD_SNIPPET
  \/ UNDO
  \/ REDO

\* Selecting, expanding, searching and anchoring, around deletes, moves and
\* loads with undo and redo.
SpecNav == Init /\ [][NextNav]_vars

\* -------------------------------------------------------------------- sorting

\* {"b": [{"b": null, "a": true}], "A": 1}: keys out of order at the root
\* and in an object inside an array.
SortJson ==
  JsObject(<<Member(sB, JsArray(<<JsObject(<<Member(sB, JsNull),
                                             Member(sA, JsBoolean(TRUE))>>)>>)),
             Member(sUpperA, JsNumber(sOne))>>)

InitSort ==
  \E doc \in {buildDocumentFromValue(SortJson, {})} :
    \E id \in {createId(DocIds(doc))} :
      /\ state = InitialState(doc, formatJson(SortJson, 2),
                              <<[id |-> id, name |-> "Snippet", updatedAt |-> 0]>>,
                              id :> TypedText)
      /\ hist = [docs |-> <<Current(state)>>, pos |-> 1, made |-> 0]

NextSort ==
  \/ SET_SELECTED
  \/ SORT_KEYS
  \/ RENAME_KEY
  \/ UNDO
  \/ REDO

\* Sessions that select a node and sort, rename and undo.
SpecSort == InitSort /\ [][NextSort]_vars

\* ---------------------------------------------------------- object identity

\* The commands of a session that tracks which object each document is.
MaxRefSteps == 3

\* A document of the state is a JavaScript object: the state's doc and the
\* doc of every history entry are references.  hist.refs names the object
\* behind each of them; two places naming one object see each other's writes.
RefsOf(refs) == {refs.cur} \cup Range(refs.undo) \cup Range(refs.redo)

\* An object no reference names yet.
FreshRef(used) == CHOOSE n \in 1..(Cardinality(used) + 1) :
                    n \notin used /\ \A m \in 1..(n - 1) : m \in used

\* The result of a call that hands back the object it was given.
Shared(ref, fresh) == ref

\* structuredClone(object): the result is a new object.
Cloned(ref, fresh) == fresh

\* An assignment into the object ref, read through every reference to it.
WriteThrough(st, refs, ref, doc) ==
  [st EXCEPT
     !.doc = IF refs.cur = ref THEN doc ELSE st.doc,
     !.undoStack = [i \in DOMAIN st.undoStack |->
                      IF refs.undo[i] = ref THEN [st.undoStack[i] EXCEPT !.doc = doc]
                      ELSE st.undoStack[i]],
     !.redoStack = [i \in DOMAIN st.redoStack |->
                      IF refs.redo[i] = ref THEN [st.redoStack[i] EXCEPT !.doc = doc]
                      ELSE st.redoStack[i]]]

\* The object a command works on: applyParse builds a new document, every
\* structural command clones the state's document first.
WorkingCopy(action, refs) ==
  IF action.type \in {"PARSE_TEXT", "LOAD_TEXT", "LOAD_SNIPPET", "SET_RAW_TEXT"}
    THEN FreshRef(RefsOf(refs))
    ELSE Cloned(refs.cur, FreshRef(RefsOf(refs)))

\* The object snapshotState puts into a history entry.
SnapshotCopy(refs) == Cloned(refs.cur, FreshRef(RefsOf(refs) \cup {FreshRef(RefsOf(refs))}))

\* The references after a command, with the document each entry held when
\* it was pushed (born), whether the state's document came out of a history
\* entry (restored) and whether such a document was mutated since (rewrote).
Aliases(action, st, next) ==
  IF action.type = "UNDO" /\ st.undoStack # <<>> THEN
    [hist EXCEPT
       !.refs = [cur |-> Head(hist.refs.undo),
                 undo |-> Tail(hist.refs.undo),
                 redo |-> Slice(<<SnapshotCopy(hist.refs)>> \o hist.refs.redo, HistoryLimit)],
       !.born = [undo |-> Tail(hist.born.undo),
                 redo |-> Slice(<<st.doc>> \o hist.born.redo, HistoryLimit)],
       !.restored = TRUE]
  ELSE IF action.type = "REDO" /\ st.redoStack # <<>> THEN
    [hist EXCEPT
       !.refs = [cur |-> Head(hist.refs.redo),
                 undo |-> Slice(<<SnapshotCopy(hist.refs)>> \o hist.refs.undo, HistoryLimit),
                 redo |-> Tail(hist.refs.redo)],
       !.born = [undo |-> Slice(<<st.doc>> \o hist.born.undo, HistoryLimit),
                 redo |-> Tail(hist.born.redo)],
       !.restored = TRUE]
  ELSE IF Pushes(action, st, next) THEN
    [made |-> hist.made + 1,
     refs |-> [cur |-> WorkingCopy(action, hist.refs),
               undo |-> Slice(<<SnapshotCopy(hist.refs)>> \o hist.refs.undo, HistoryLimit),
               redo |-> <<>>],
     born |-> [undo |-> Slice(<<IF SnapshotCopy(hist.refs) = WorkingCopy(action, hist.refs)
                                  THEN next.doc ELSE st.doc>> \o hist.born.undo,
                              HistoryLimit),
               redo |-> <<>>],
     restored |-> FALSE,
     rewrote |-> hist.rewrote \/ hist.restored]
  ELSE hist

\* Which object is which does not depend on the objects' names: they are
\* renamed in the order of the references.
Places(refs) == <<refs.cur>> \o refs.undo \o refs.redo

Rank(seq, ref) ==
  Cardinality({seq[j] : j \in 1..(CHOOSE i \in DOMAIN seq :
                                     seq[i] = ref /\ \A k \in 1..(i - 1) : seq[k] # ref)})

Renamed(refs) ==
  [cur |-> Rank(Places(refs), refs.cur),
   undo |-> [i \in DOMAIN refs.undo |-> Rank(Places(refs), refs.undo[i])],
   redo |-> [i \in DOMAIN refs.redo |-> Rank(Places(refs), refs.redo[i])]]

\* One command of the session: the reducer's result, read through the
\* references after the command's writes into its working copy.
DispatchRef(action) ==
  \E next \in {editorReducer(state, action)} :
    \E after \in {Aliases(action, state, next)} :
      /\ Pushes(action, state, next) => hist.made < MaxRefSteps
      /\ hist' = [after EXCEPT !.refs = Renamed(after.refs)]
      /\ state' = IF Pushes(action, state, next)
                    THEN WriteThrough(next, after.refs, after.refs.cur, next.doc)
                    ELSE next

InitRef ==
  \E value \in InitValues :
    \E doc \in {buildDocumentFromValue(value, {})} :
      \E id \in {createId(DocIds(doc))} :
        /\ state = InitialState(doc, formatJson(value, 2),
                                <<[id |-> id, name |-> "Snippet", updatedAt |-> 0]>>,
                                id :> TypedText)
        /\ hist = [made |-> 0,
                   refs |-> [cur |-> 1, undo |-> <<>>, redo |-> <<>>],
                   born |-> [undo |-> <<>>, redo |-> <<>>],
                   restored |-> FALSE,
                   rewrote |-> FALSE]

EDIT_PRIMITIVE_REF ==
  \E nodeId \in Scalars(state.doc), edit \in EditInputs :
    /\ DispatchRef([type |-> "EDIT_PRIMITIVE", nodeId |-> nodeId, value |-> edit[1],
                    newType |-> edit[2]])

DELETE_NODE_REF ==
  \E target \in ChildPairs(state.doc) :
    /\ DispatchRef([type |-> "DELETE_NODE", parentId |-> target[1], childId |-> target[2]])

LOAD_SNIPPET_REF ==
  \E id \in DOMAIN state.snippetContents :
    /\ DispatchRef([type |-> "LOAD_SNIPPET", id |-> id])

UNDO_REF ==
  /\ DispatchRef([type |-> "UNDO"])

REDO_REF ==
  /\ DispatchRef([type |-> "REDO"])

NextRef ==
  \/ EDIT_PRIMITIVE_REF
  \/ DELETE_NODE_REF
  \/ LOAD_SNIPPET_REF
  \/ UNDO_REF
  \/ REDO_REF

\* Edits, deletes and loads with undo and redo, over shared objects.
SpecRef == InitRef /\ [][NextRef]_vars

\* ------------------------------------------------------------- properties

\* The places (node, position) that refer to id.
Refs(doc, id) ==
  UNION {{<<n, i>> : i \in {j \in DOMAIN ChildIds(doc.nodes[n]) :
                              ChildIds(doc.nodes[n])[j] = id}} : n \in NodeIds(doc)}

\* The ids reached from the ids of seen by following references.
RECURSIVE ReachFrom(_, _)
ReachFrom(doc, seen) ==
  LET more == seen \cup UNION {Range(ChildIds(doc.nodes[n])) : n \in seen \cap NodeIds(doc)}
  IN IF more = seen THEN seen ELSE ReachFrom(doc, more)

StrictTree(doc) ==
  /\ doc.rootId \in NodeIds(doc)
  /\ Refs(doc, doc.rootId) = {}
  /\ \A n \in NodeIds(doc) : Range(ChildIds(doc.nodes[n])) \subseteq NodeIds(doc)
  /\ \A n \in NodeIds(doc) \ {doc.rootId} : Cardinality(Refs(doc, n)) = 1
  /\ \A n \in NodeIds(doc) : n \notin ReachFrom(doc, Range(ChildIds(doc.nodes[n])))
  /\ ReachFrom(doc, {doc.rootId}) = NodeIds(doc)

Size(doc) == Cardinality(NodeIds(doc))

\* C1: under well-formed commands every reachable document is a strict
\* tree: the root is in the map and has no parent, every child a node
\* refers to is in the map and is referred to exactly once, no node is its
\* own descendant, and every node is reached from the root.
C1_StrictTree == StrictTree(state.doc)

\* A document after a deletion and then an addition.
C1_Witness ==
  /\ Len(state.undoStack) >= 2
  /\ Size(state.undoStack[2].doc) > Size(state.undoStack[1].doc)
  /\ Size(state.doc) > Size(state.undoStack[1].doc)
  /\ state.doc.rootId = state.undoStack[2].doc.rootId

\* The nodes of the subtree of top: those whose chain of parents passes top.
SubtreeOf(doc, top) ==
  {n \in NodeIds(doc) : top \in Range(ChainUp(buildParentMap(doc), n, Size(doc) + 1))}

DeleteExact(st, parentId, childId) ==
  LET before == st.doc
      after == editorReducer(st, [type |-> "DELETE_NODE", parentId |-> parentId,
                                  childId |-> childId]).doc
      gone == SubtreeOf(before, childId)
  IN /\ NodeIds(after) = NodeIds(before) \ gone
     /\ \A n \in gone : ~Has(after, n)
     /\ Size(after) = Size(before) - Cardinality(gone)
     /\ after.nodes[parentId].type = before.nodes[parentId].type
     /\ after.nodes[parentId].entries =
          SelectSeq(before.nodes[parentId].entries, LAMBDA e : e.childId # childId)
     /\ after.nodes[parentId].items =
          SelectSeq(before.nodes[parentId].items, LAMBDA id : id # childId)
     /\ Len(ChildIds(after.nodes[parentId])) = Len(ChildIds(before.nodes[parentId])) - 1
     /\ \A n \in NodeIds(after) \ {parentId} : after.nodes[n] = before.nodes[n]
     /\ after.rootId = before.rootId
     /\ \A n \in NodeIds(after) : ReachFrom(after, {n}) = ReachFrom(before, {n}) \ gone

\* C2: DELETE_NODE of a direct child removes from the map exactly the child
\* and its descendants and, from the parent's sequence, the one entry of the
\* child; every other node keeps its contents and what it reaches, a removed
\* id is absent afterwards, and the count drops by the size of the subtree.
C2_CascadingDelete ==
  \A target \in ChildPairs(state.doc) : DeleteExact(state, target[1], target[2])

\* A document a deletion of a subtree of three nodes or more has produced.
C2_Witness ==
  /\ state.undoStack # <<>>
  /\ \E target \in ChildPairs(Head(state.undoStack).doc) :
       /\ Cardinality(SubtreeOf(Head(state.undoStack).doc, target[2])) >= 3
       /\ NodeIds(state.doc) =
            NodeIds(Head(state.undoStack).doc)
              \ SubtreeOf(Head(state.undoStack).doc, target[2])
       /\ state.selectedId = target[1]

KeysDistinct(doc) ==
  \A n \in NodeIds(doc) :
    \A i, j \in DOMAIN doc.nodes[n].entries :
      i # j => doc.nodes[n].entries[i].key # doc.nodes[n].entries[j].key

\* The keys and ids a command may carry.
AllKeys == {sEmpty, sBlank, sA, sB, sUpperA, sPadB}
AllIds(st) == NodeIds(st.doc) \cup {createId(UsedIds(st))}

AddCommands(st) ==
  [type : {"ADD_NODE"}, parentId : AllIds(st), parentType : {"object", "array"},
   key : AllKeys, newType : AddTypes]

RenameCommands(st) ==
  [type : {"RENAME_KEY"}, parentId : AllIds(st), childId : AllIds(st), newKey : AllKeys]

\* C3: whatever ADD_NODE and RENAME_KEY commands are applied, accepted or
\* rejected, among any other commands, the keys of every object are pairwise
\* distinct as strings, here and after any further ADD_NODE or RENAME_KEY.
C3_KeysDistinct ==
  /\ KeysDistinct(state.doc)
  /\ \A c \in AddCommands(state) \cup RenameCommands(state) :
       KeysDistinct(editorReducer(state, c).doc)

\* An object that has gained a third key, "A", while the notice of an
\* ADD_NODE rejected for its duplicate key is shown.
C3_Witness ==
  /\ state.notice = ErrorNotice("Duplicate key inside this object.")
  /\ \E n \in NodeIds(state.doc) :
       /\ Len(state.doc.nodes[n].entries) >= 3
       /\ \E i \in DOMAIN state.doc.nodes[n].entries :
            state.doc.nodes[n].entries[i].key = sUpperA

EditValues ==
  {JsString(sB), JsNumber(sZero), JsNumber(sNaN), JsNumber(sInfinity), JsBoolean(TRUE), JsNull}

EditCommands(st) ==
  [type : {"EDIT_PRIMITIVE"}, nodeId : AllIds(st), value : EditValues,
   newType : {"", "string", "number", "boolean", "null"}]

\* The type an edit results in.
ResultType(doc, c) == IF c.newType # "" THEN c.newType ELSE doc.nodes[c.nodeId].type

AddRejected(doc, c) ==
  \/ ~Has(doc, c.parentId)
  \/ doc.nodes[c.parentId].type # c.parentType
  \/ /\ c.parentType = "object"
     /\ \/ trim(c.key) = sEmpty
        \/ \E i \in DOMAIN doc.nodes[c.parentId].entries :
             doc.nodes[c.parentId].entries[i].key = trim(c.key)

RenameRejected(doc, c) ==
  \/ trim(c.newKey) = sEmpty
  \/ ~Has(doc, c.parentId)
  \/ doc.nodes[c.parentId].type # "object"
  \/ \A i \in DOMAIN doc.nodes[c.parentId].entries :
       doc.nodes[c.parentId].entries[i].childId # c.childId
  \/ \E i \in DOMAIN doc.nodes[c.parentId].entries :
       /\ doc.nodes[c.parentId].entries[i].key = trim(c.newKey)
       /\ doc.nodes[c.parentId].entries[i].childId # c.childId

EditRejected(doc, c) ==
  \/ ~Has(doc, c.nodeId)
  \/ doc.nodes[c.nodeId].type \in {"object", "array"}
  \/ ResultType(doc, c) = "number" /\ c.value.t # "number"

Untouched(st, next) ==
  /\ next.doc = st.doc
  /\ next.rawText = st.rawText
  /\ next.lastValidText = st.lastValidText
  /\ next.undoStack = st.undoStack
  /\ next.redoStack = st.redoStack
  /\ next.selectedId = st.selectedId
  /\ next.expanded = st.expanded
  /\ next.anchorPath = st.anchorPath

\* C4: a rejected ADD_NODE (blank or duplicate key on an object parent,
\* parent missing, parentType not the parent's kind), a rejected RENAME_KEY
\* (blank key, key of another entry, parent not an object, child not an
\* entry of the parent) and a rejected EDIT_PRIMITIVE (target missing or a
\* container, a value that is no number for type number) leave doc, rawText,
\* lastValidText, undoStack, redoStack, selectedId, expanded and anchorPath
\* as they were.
C4_RejectedUntouched ==
  /\ \A c \in AddCommands(state) :
       AddRejected(state.doc, c) => Untouched(state, editorReducer(state, c))
  /\ \A c \in RenameCommands(state) :
       RenameRejected(state.doc, c) => Untouched(state, editorReducer(state, c))
  /\ \A c \in EditCommands(state) :
       EditRejected(state.doc, c) => Untouched(state, editorReducer(state, c))

\* A RENAME_KEY to the key of another entry was rejected after a command
\* had changed the document.
C4_Witness ==
  /\ state.notice = ErrorNotice("Keys must be unique within the object.")
  /\ Len(state.undoStack) = 1
  /\ state.redoStack = <<>>
  /\ state.doc # Head(state.undoStack).doc

DeleteCommands(st) == [type : {"DELETE_NODE"}, parentId : AllIds(st), childId : AllIds(st)]

Malformed(doc, c) ==
  \/ ~Has(doc, c.parentId)
  \/ ~Has(doc, c.childId)
  \/ c.childId \notin Range(ChildIds(doc.nodes[c.parentId]))

\* C5: DELETE_NODE with a parentId or a childId that is not in the document,
\* or a childId that is no direct child of parentId, leaves the node map,
\* every entry sequence, the text, the undo stack and the redo stack as
\* they were.
C5_MalformedDeleteRejected ==
  \A c \in DeleteCommands(state) :
    Malformed(state.doc, c) =>
      /\ editorReducer(state, c).doc = state.doc
      /\ editorReducer(state, c).rawText = state.rawText
      /\ editorReducer(state, c).undoStack = state.undoStack
      /\ editorReducer(state, c).redoStack = state.redoStack

\* C6: no number node of a reachable document holds a value that is not
\* finite, an edit to NaN, Infinity or -Infinity being rejected.
C6_FiniteNumbers ==
  \A n \in NodeIds(state.doc) :
    state.doc.nodes[n].type = "number" => IsFinite(JsNumber(state.doc.nodes[n].value))

MoveCommands(st) ==
  [type : {"MOVE_ARRAY_ITEM"}, parentId : AllIds(st), childId : AllIds(st),
   direction : {0 - 1, 1}]

TextCommands(st) ==
  [type : {"SET_RAW_TEXT", "LOAD_TEXT"}, text : TextInputs]
    \cup [type : {"LOAD_SNIPPET"}, id : DOMAIN st.snippetContents]
    \cup [type : {"SORT_KEYS"}, scope : {"selected", "all"}]
    \cup {[type |-> "PARSE_TEXT"]}

\* The commands that may push history.
HistoryCommands(st) ==
  AddCommands(st) \cup RenameCommands(st) \cup EditCommands(st) \cup DeleteCommands(st)
    \cup MoveCommands(st) \cup TextCommands(st)

\* C7: for every command that pushes a history entry, the command and then
\* UNDO give back the document and the text the command started from.
C7_UndoReverses ==
  \A c \in HistoryCommands(state) :
    Pushes(c, state, editorReducer(state, c)) =>
      /\ editorReducer(editorReducer(state, c), [type |-> "UNDO"]).doc = state.doc
      /\ editorReducer(editorReducer(state, c), [type |-> "UNDO"]).rawText = state.rawText

\* C8: after n mutations, k undos and j redos the document and the text are
\* those of position n - k + j of the run.
C8_Timeline == Current(state) = hist.docs[hist.pos]

\* The commands the program carries out: those it does not reject.
Successful(st, c) ==
  CASE c.type = "ADD_NODE" -> ~AddRejected(st.doc, c)
    [] c.type = "RENAME_KEY" -> ~RenameRejected(st.doc, c)
    [] c.type = "EDIT_PRIMITIVE" ->
         ~EditRejected(st.doc, c) /\ ~(ResultType(st.doc, c) = "number" /\ IsNaN(c.value))
    [] c.type = "DELETE_NODE" -> ~Malformed(st.doc, c)
    [] c.type = "MOVE_ARRAY_ITEM" ->
         /\ Has(st.doc, c.parentId)
         /\ st.doc.nodes[c.parentId].type = "array"
         /\ indexOf(st.doc.nodes[c.parentId].items, c.childId) >= 0
         /\ indexOf(st.doc.nodes[c.parentId].items, c.childId) + c.direction >= 0
         /\ indexOf(st.doc.nodes[c.parentId].items, c.childId) + c.direction
              < Len(st.doc.nodes[c.parentId].items)
    [] c.type = "SORT_KEYS" -> TRUE
    [] c.type = "PARSE_TEXT" -> st.rawText.valid
    [] c.type = "LOAD_TEXT" -> c.text.valid
    [] c.type = "LOAD_SNIPPET" -> st.snippetContents[c.id].valid
    [] c.type = "SET_RAW_TEXT" -> st.autoParse /\ c.text.valid
    [] OTHER -> FALSE

\* C9: every successful mutation, parse and load pushes one entry on the
\* head of the undo stack, a snapshot of the document, text, expansion,
\* selection and anchor path before the command, and empties the redo stack.
C9_PushesSnapshot ==
  \A c \in HistoryCommands(state) :
    Successful(state, c) =>
      /\ editorReducer(state, c).undoStack # <<>>
      /\ Tail(editorReducer(state, c).undoStack) = state.undoStack
      /\ Head(editorReducer(state, c).undoStack).doc = state.doc
      /\ Head(editorReducer(state, c).undoStack).rawText = state.rawText
      /\ Head(editorReducer(state, c).undoStack).expanded = state.expanded
      /\ Head(editorReducer(state, c).undoStack).selectedId = state.selectedId
      /\ Head(editorReducer(state, c).undoStack).anchorPath = state.anchorPath
      /\ editorReducer(state, c).redoStack = <<>>

Min(a, b) == IF a < b THEN a ELSE b

\* C10: each stack holds at most 50 entries, and they are the most recent
\* positions of the run in their order: the undo stack the positions before
\* the current one, newest first, the redo stack those after it; after more
\* than 50 mutations exactly the last 50 can be undone.
C10_BoundedHistory ==
  /\ Len(state.undoStack) <= 50
  /\ Len(state.redoStack) <= 50
  /\ \A i \in DOMAIN state.undoStack :
       /\ hist.pos - i >= 1
       /\ Current(state.undoStack[i]) = hist.docs[hist.pos - i]
  /\ \A i \in DOMAIN state.redoStack :
       /\ hist.pos + i <= Len(hist.docs)
       /\ Current(state.redoStack[i]) = hist.docs[hist.pos + i]
  /\ (state.redoStack = <<>> /\ hist.pos = hist.made + 1) =>
       Len(state.undoStack) = Min(50, hist.made)

\* The undo stack is full and a later push has evicted its oldest entry.
C10_Witness ==
  /\ Len(state.undoStack) = 50
  /\ hist.made > 50
  /\ state.redoStack = <<>>

\* C11: a history entry's document is never changed after it is pushed:
\* whatever commands follow, mutations of a document that UNDO or REDO
\* restored included, every entry of the undo and the redo stack holds the
\* document it held when it was pushed.
C11_EntriesImmutable ==
  /\ Len(hist.born.undo) = Len(state.undoStack)
  /\ Len(hist.born.redo) = Len(state.redoStack)
  /\ \A i \in DOMAIN state.undoStack : state.undoStack[i].doc = hist.born.undo[i]
  /\ \A i \in DOMAIN state.redoStack : state.redoStack[i].doc = hist.born.redo[i]

\* A document restored by UNDO or REDO has been mutated, and two entries
\* pushed at different times are still on the undo stack.
C11_Witness ==
  /\ hist.rewrote
  /\ Len(state.undoStack) >= 2
  /\ state.undoStack[1].doc # state.undoStack[2].doc
  /\ state.undoStack[1].doc # state.doc

\* The selecting, expanding, searching and anchoring commands on a state.
NavCommands(st) ==
  {[type |-> "SET_SELECTED", nodeId |-> n] : n \in NodeIds(st.doc) \cup {MissingId}}
  \cup {[type |-> "TOGGLE_EXPANDED", nodeId |-> n] : n \in NodeIds(st.doc) \cup {MissingId}}
  \cup {[type |-> "EXPAND_ALL"], [type |-> "COLLAPSE_ALL"]}
  \cup {[type |-> "SET_SEARCH_QUERY", query |-> q] : q \in QueryInputs \cup {sPadB}}
  \cup {[type |-> "MOVE_MATCH", direction |-> d] : d \in {0 - 1, 1}}
  \cup {[type |-> "TOGGLE_FILTER_MODE", enabled |-> e] : e \in BOOLEAN}
  \cup {[type |-> "SET_OUTPUT_MODE", mode |-> m] : m \in {"pretty", "minified"}}
  \cup {[type |-> "ANCHOR_TO", nodeId |-> n] : n \in NodeIds(st.doc) \cup {NoId, MissingId}}

\* C12: SET_SELECTED, TOGGLE_EXPANDED, EXPAND_ALL, COLLAPSE_ALL,
\* SET_SEARCH_QUERY, MOVE_MATCH, TOGGLE_FILTER_MODE, SET_OUTPUT_MODE and
\* ANCHOR_TO leave the document, the undo stack and the redo stack as they
\* were.
C12_NavigationKeepsHistory ==
  \A c \in NavCommands(state) :
    LET next == editorReducer(state, c)
    IN /\ next.doc = state.doc
       /\ next.undoStack = state.undoStack
       /\ next.redoStack = state.redoStack

\* After an undo left both stacks non-empty, the output mode was switched:
\* a state only a non-mutating command produces, with history to keep.
C12_Witness ==
  /\ state.undoStack # <<>>
  /\ state.redoStack # <<>>
  /\ state.outputMode = "minified"

\* The commands that have nothing to do on a state: UNDO and REDO on an
\* empty stack, a move of the first item up or of the last item down, and
\* ANCHOR_TO an id that is not in the document (never used, or deleted).
IdleCommands(st) ==
  (IF st.undoStack = <<>> THEN {[type |-> "UNDO"]} ELSE {})
  \cup (IF st.redoStack = <<>> THEN {[type |-> "REDO"]} ELSE {})
  \cup {[type |-> "MOVE_ARRAY_ITEM", parentId |-> p, childId |-> Head(st.doc.nodes[p].items),
         direction |-> 0 - 1] :
          p \in {n \in NodeIds(st.doc) : st.doc.nodes[n].type = "array"
                                         /\ st.doc.nodes[n].items # <<>>}}
  \cup {[type |-> "MOVE_ARRAY_ITEM", parentId |-> p, childId |-> Last(st.doc.nodes[p].items),
         direction |-> 1] :
          p \in {n \in NodeIds(st.doc) : st.doc.nodes[n].type = "array"
                                         /\ st.doc.nodes[n].items # <<>>}}
  \cup {[type |-> "ANCHOR_TO", nodeId |-> n] :
          n \in (UsedIds(st) \cup {MissingId}) \ NodeIds(st.doc)}

\* C13: UNDO with an empty undo stack, REDO with an empty redo stack, a
\* move of the first array item with direction -1 or of the last with +1,
\* and ANCHOR_TO an id that is not in the document return the state they
\* were given, equal in every field.
C13_IdleCommands ==
  \A c \in IdleCommands(state) : editorReducer(state, c) = state

\* Nothing to undo but something to redo, the anchor moved off the root, an
\* array with two items in the document and, in the history, an id that the
\* document does not hold: each of the idle commands has something it could
\* disturb.
C13_Witness ==
  /\ state.undoStack = <<>>
  /\ state.redoStack # <<>>
  /\ Len(state.anchorPath) > 1
  /\ \E n \in NodeIds(state.doc) :
       state.doc.nodes[n].type = "array" /\ Len(state.doc.nodes[n].items) = 2
  /\ UsedIds(state) \ (NodeIds(state.doc) \cup DOMAIN state.snippetContents) # {}

\* The commands that hand a text to the parser, with the text each hands
\* over: PARSE_TEXT the text mirror, LOAD_TEXT its text, LOAD_SNIPPET the
\* content of a stored snippet, SET_RAW_TEXT its text while auto-parse is on.
ParseCommands(st) ==
  {<<[type |-> "PARSE_TEXT"], st.rawText>>}
  \cup {<<[type |-> "LOAD_TEXT", text |-> t], t>> : t \in TextInputs \cup {EmptyText}}
  \cup {<<[type |-> "LOAD_SNIPPET", id |-> id], st.snippetContents[id]>> :
          id \in {i \in DOMAIN st.snippetContents : st.snippetContents[i] # EmptyText}}
  \cup (IF st.autoParse
          THEN {<<[type |-> "SET_RAW_TEXT", text |-> t], t>> : t \in TextInputs \cup {EmptyText}}
          ELSE {})

\* C14: when the parser rejects the text of PARSE_TEXT, LOAD_TEXT,
\* LOAD_SNIPPET or an auto-parsed SET_RAW_TEXT, the document, lastValidText,
\* both stacks, the expansion set, the selection and the anchor path stay
\* as they were and parseError is set; PARSE_TEXT, LOAD_TEXT (and
\* LOAD_SNIPPET) leave the text mirror as it was too.
C14_FailedParseKeepsState ==
  \A c \in ParseCommands(state) :
    LET next == editorReducer(state, c[1])
    IN ~c[2].valid =>
         /\ next.doc = state.doc
         /\ next.lastValidText = state.lastValidText
         /\ next.undoStack = state.undoStack
         /\ next.redoStack = state.redoStack
         /\ next.expanded = state.expanded
         /\ next.selectedId = state.selectedId
         /\ next.anchorPath = state.anchorPath
         /\ next.parseError # NoParseError
         /\ next.parseError = parseJson(c[2]).error
         /\ c[1].type # "SET_RAW_TEXT" => next.rawText = state.rawText

\* A failed parse has happened with history to keep: the error is set, the
\* text mirror holds a text that does not parse next to the last valid
\* text, a snippet holds such a text, and there is an entry to undo.
C14_Witness ==
  /\ state.parseError # NoParseError
  /\ state.rawText # state.lastValidText
  /\ ~parseJson(state.rawText).ok
  /\ \E id \in DOMAIN state.snippetContents : ~parseJson(state.snippetContents[id]).ok
  /\ state.undoStack # <<>>
  /\ state.autoParse

\* C15: after every successful edit, rename, add, delete, move and sort and
\* every successful parse and load, rawText and lastValidText are both the
\* text formatJson writes, at the current indent, for the value
\* documentToJson gives of the resulting document, and parseError is
\* cleared.
C15_TextMirrorsDocument ==
  \A c \in HistoryCommands(state) \cup {[type |-> "LOAD_TEXT", text |-> ProtoText]} :
    LET next == editorReducer(state, c)
    IN Successful(state, c) =>
         /\ next.rawText = formatJson(documentToJson(next.doc), next.indent)
         /\ next.lastValidText = formatJson(documentToJson(next.doc), next.indent)
         /\ next.parseError = NoParseError

\* Plain nested values, as JSON.parse hands them to buildDocumentFromValue:
\* scalars, empty containers, nesting, keys that are array indices, and an
\* own property named __proto__.
RoundTripValues ==
  {JsNull, JsBoolean(FALSE), JsNumber(sZero), JsString(sPadB),
   JsArray(<<>>), JsObject(<<>>),
   SmallJson,
   JsObject(<<Member(sB, JsArray(<<JsObject(<<Member(sUpperA, JsString(sEmpty))>>)>>)),
              Member(sOne, JsNull), Member(sZero, JsArray(<<>>))>>),
   ParseTree(TypedText.tree),
   ParseTree(ProtoText.tree)}

\* The number of values nested in a value, itself included.
RECURSIVE CountValues(_)
RECURSIVE CountKids(_)
CountKids(kids) ==
  IF kids = <<>> THEN 0 ELSE CountValues(Head(kids).val) + CountKids(Tail(kids))

CountValues(value) == 1 + CountKids(value.kids)

\* C16: for every plain nested value v, documentToJson of the document
\* built from v is structurally equal to v (same keys in the same order,
\* same array order, same scalars), and the document holds one node, under
\* an id of its own, per nested value.
C16_RoundTrip ==
  \A v \in RoundTripValues :
    LET doc == buildDocumentFromValue(v, UsedIds(state))
    IN /\ documentToJson(doc) = v
       /\ Cardinality(NodeIds(doc)) = CountValues(v)
       /\ \A id \in NodeIds(doc) : doc.nodes[id].id = id
       /\ NodeIds(doc) \cap UsedIds(state) = {}

\* The structural commands that remove nothing.
KeepingCommands(st) ==
  EditCommands(st) \cup RenameCommands(st) \cup AddCommands(st) \cup MoveCommands(st)
    \cup [type : {"SORT_KEYS"}, scope : {"selected", "all"}]

\* The nodes a command is aimed at: the edited scalar, the parent whose
\* sequence is renamed in, added to or reordered, the nodes of the sorted
\* subtree.
Targeted(st, c) ==
  CASE c.type = "EDIT_PRIMITIVE" -> {c.nodeId}
    [] c.type = "SORT_KEYS" ->
         IF c.scope = "all" THEN NodeIds(st.doc) ELSE SubtreeOf(st.doc, st.selectedId)
    [] OTHER -> {c.parentId}

\* Every id of before is an id of after, under the same parent.
IdsKept(before, after) ==
  /\ after.rootId = before.rootId
  /\ NodeIds(before) \subseteq NodeIds(after)
  /\ \A n \in NodeIds(before) :
       ParentOf(buildParentMap(after), n) = ParentOf(buildParentMap(before), n)

\* C17: node ids are stable.  After a successful EDIT_PRIMITIVE, RENAME_KEY,
\* ADD_NODE, MOVE_ARRAY_ITEM or SORT_KEYS every id is still there, under the
\* parent it had; a node the command is not aimed at is the node it was; a
\* node it is aimed at keeps its type and its children unless it is the
\* edited scalar, which keeps its id and its place in its parent whatever
\* its new type; only ADD_NODE adds an id, one.  DELETE_NODE removes ids of
\* the subtree of the deleted child only, and the ids that stay keep their
\* parents.
C17_StableIds ==
  /\ \A c \in KeepingCommands(state) :
       LET before == state.doc
           after == editorReducer(state, c).doc
       IN Successful(state, c) =>
            /\ IdsKept(before, after)
            /\ \A n \in NodeIds(before) \ Targeted(state, c) : after.nodes[n] = before.nodes[n]
            /\ \A n \in NodeIds(before) :
                 /\ after.nodes[n].id = n
                 /\ c.type # "EDIT_PRIMITIVE" =>
                      /\ after.nodes[n].type = before.nodes[n].type
                      /\ after.nodes[n].value = before.nodes[n].value
                 /\ Range(ChildIds(before.nodes[n])) \subseteq Range(ChildIds(after.nodes[n]))
                 /\ c.type # "ADD_NODE" =>
                      Len(ChildIds(after.nodes[n])) = Len(ChildIds(before.nodes[n]))
            /\ c.type = "EDIT_PRIMITIVE" =>
                 /\ after.nodes[c.nodeId].type = ResultType(before, c)
                 /\ Refs(after, c.nodeId) = Refs(before, c.nodeId)
            /\ Cardinality(NodeIds(after) \ NodeIds(before))
                 = IF c.type = "ADD_NODE" THEN 1 ELSE 0
  /\ \A c \in DeleteCommands(state) :
       LET before == state.doc
           after == editorReducer(state, c).doc
       IN /\ NodeIds(after) \subseteq NodeIds(before)
          /\ NodeIds(before) \ NodeIds(after) \subseteq SubtreeOf(before, c.childId)
          /\ Successful(state, c) =>
               /\ NodeIds(before) \ NodeIds(after) = SubtreeOf(before, c.childId)
               /\ \A n \in NodeIds(after) :
                    ParentOf(buildParentMap(after), n) = ParentOf(buildParentMap(before), n)

\* The number "a" of the initial document was edited into a string and a
\* node was added: node 2 has its id and its place as the first entry of
\* the root, with another type, among six nodes.
C17_Witness ==
  /\ Size(state.doc) = 6
  /\ Has(state.doc, 2)
  /\ state.doc.nodes[2].type = "string"
  /\ state.doc.nodes[state.doc.rootId].entries[1] = Entry(sA, 2)

\* path leads from the root of doc to target, each id the parent of the next.
IsRootPath(doc, path, target) ==
  /\ path # <<>>
  /\ path[1] = doc.rootId
  /\ path[Len(path)] = target
  /\ \A i \in 1..(Len(path) - 1) :
       /\ Has(doc, path[i])
       /\ path[i + 1] \in Range(ChildIds(doc.nodes[path[i]]))

\* Structural commands on every pair of ids, and the parses and loads.
StructuralCommands(st) ==
  [type : {"EDIT_PRIMITIVE"}, nodeId : AllIds(st), value : {JsString(sB)},
   newType : {"", "boolean"}]
    \cup [type : {"RENAME_KEY"}, parentId : AllIds(st), childId : AllIds(st),
          newKey : {sUpperA}]
    \cup [type : {"ADD_NODE"}, parentId : AllIds(st), parentType : {"object", "array"},
          key : {sUpperA}, newType : {"array"}]
    \cup DeleteCommands(st)
    \cup MoveCommands(st)
    \cup [type : {"SORT_KEYS"}, scope : {"selected", "all"}]

\* C18: every successful parse and load resets the anchor path to the root
\* of the new document; after every successful structural mutation the
\* anchor path is the path from the root to the node it ended at before, if
\* that node is still in the document, and the root alone otherwise; and
\* when a DELETE_NODE removes the node the anchor ended at, itself or under
\* the deleted child, the selection is the parent of the deleted child, the
\* nearest ancestor that is left.
C18_AnchorFollowsDocument ==
  /\ \A c \in TextCommands(state) \ [type : {"SORT_KEYS"}, scope : {"selected", "all"}] :
       LET next == editorReducer(state, c)
       IN Successful(state, c) =>
            /\ next.anchorPath = <<next.doc.rootId>>
            /\ next.doc.rootId \notin NodeIds(state.doc)
  /\ \A c \in StructuralCommands(state) :
       LET next == editorReducer(state, c)
           target == Last(state.anchorPath)
       IN Successful(state, c) =>
            /\ Has(next.doc, target) => IsRootPath(next.doc, next.anchorPath, target)
            /\ ~Has(next.doc, target) => next.anchorPath = <<next.doc.rootId>>
            /\ (c.type = "DELETE_NODE" /\ target \in SubtreeOf(state.doc, c.childId)) =>
                 /\ ~Has(next.doc, target)
                 /\ next.selectedId = c.parentId
                 /\ Has(next.doc, c.parentId)
                 /\ c.parentId = ParentOf(buildParentMap(state.doc), c.childId)
                 /\ c.parentId \in Range(state.anchorPath)

\* The anchor was two levels down when a delete removed the child it passed
\* through: the anchor is back at the root, which is selected.
C18_Witness ==
  /\ state.undoStack # <<>>
  /\ Len(Head(state.undoStack).anchorPath) = 3
  /\ Head(state.undoStack).doc.rootId = state.doc.rootId
  /\ ~Has(state.doc, Head(state.undoStack).anchorPath[2])
  /\ state.anchorPath = <<state.doc.rootId>>
  /\ state.selectedId = state.doc.rootId

\* The nodes of doc that list id as a child.
ParentsIn(doc, id) ==
  {p \in NodeIds(doc) : id \in Range(ChildIds(doc.nodes[p]))}

\* C19: ANCHOR_TO of a node of the document sets anchorPath to the path
\* from the root to the node, each id the parent of the next, and there is
\* no other such path (the root has no parent and every other id on the
\* path exactly one); afterwards the selection is in the subtree of the
\* node, kept if it was there already and the node otherwise, and every id
\* of the path is expanded. ANCHOR_TO of an id that is not in the document
\* is rejected: the state, and so anchorPath, is unchanged.
C19_AnchorTo ==
  state.doc # NoDoc =>
    \A nodeId \in AllIds(state) :
      LET next == editorReducer(state, [type |-> "ANCHOR_TO", nodeId |-> nodeId])
          path == next.anchorPath
          subtree == SubtreeOf(state.doc, nodeId)
      IN IF Has(state.doc, nodeId)
           THEN /\ IsRootPath(state.doc, path, nodeId)
                /\ ParentsIn(state.doc, path[1]) = {}
                /\ \A i \in 2..Len(path) : ParentsIn(state.doc, path[i]) = {path[i - 1]}
                /\ \A i, j \in DOMAIN path : path[i] = path[j] => i = j
                /\ next.selectedId \in subtree
                /\ next.selectedId =
                     (IF state.selectedId \in subtree THEN state.selectedId ELSE nodeId)
                /\ Range(path) \subseteq next.expanded
                /\ next.doc = state.doc
           ELSE next = state

\* A node two levels down was anchored while a node outside its subtree
\* was selected, before any change of the document: the path has three ids,
\* all expanded, and the selection moved to the anchored node.
C19_Witness ==
  /\ state.undoStack = <<>>
  /\ Len(state.anchorPath) = 3
  /\ IsRootPath(state.doc, state.anchorPath, Last(state.anchorPath))
  /\ state.selectedId = Last(state.anchorPath)
  /\ Range(state.anchorPath) \subseteq state.expanded

\* The nodes under id in depth-first order, a node before its children,
\* object entries and array items in their order.
RECURSIVE Preorder(_, _)
RECURSIVE PreorderAll(_, _)
Preorder(doc, id) ==
  IF ~Has(doc, id) THEN <<>>
  ELSE <<id>> \o PreorderAll(doc, ChildIds(doc.nodes[id]))

PreorderAll(doc, ids) ==
  IF ids = <<>> THEN <<>>
  ELSE Preorder(doc, Head(ids)) \o PreorderAll(doc, Tail(ids))

\* Two characters that are the same letter, whatever their case.
SameLetter(a, b) ==
  a = b \/ \E k \in DOMAIN LowerChars : {a, b} = {LowerChars[k], UpperChars[k]}

\* query occurs in text, letter for letter, whatever the case.
Contains(text, query) ==
  \E i \in 0..(Len(text) - Len(query)) :
    \A j \in 1..Len(query) : SameLetter(text[i + j], query[j])

\* A scalar node's value as a string.
Rendering(node) ==
  IF node.type = "null" THEN <<"n", "u", "l", "l">>
  ELSE IF node.type = "boolean"
    THEN (IF node.value = <<"t", "r", "u", "e">> THEN <<"t", "r", "u", "e">>
          ELSE <<"f", "a", "l", "s", "e">>)
  ELSE node.value

\* What a search from top records at node n: n once if it is an entry of
\* an object under a matching key, and once more if it is a scalar with a
\* matching value.
RecordsAt(doc, query, top, n) ==
  (IF /\ n # top
      /\ \E p \in NodeIds(doc) :
           /\ doc.nodes[p].type = "object"
           /\ \E i \in DOMAIN doc.nodes[p].entries :
                /\ doc.nodes[p].entries[i].childId = n
                /\ Contains(doc.nodes[p].entries[i].key, query)
     THEN <<n>> ELSE <<>>)
  \o (IF /\ doc.nodes[n].type \notin {"object", "array"}
         /\ Contains(Rendering(doc.nodes[n]), query)
        THEN <<n>> ELSE <<>>)

RECURSIVE RecordsOver(_, _, _, _)
RecordsOver(doc, query, top, order) ==
  IF order = <<>> THEN <<>>
  ELSE RecordsAt(doc, query, top, Head(order))
       \o RecordsOver(doc, query, top, Tail(order))

\* The queries of the search: empty, a key in the other case, parts of
\* true, null, false and of a number, and a string that is nowhere.
FindQueries ==
  {<<>>, <<"A">>, <<"B">>, <<"u">>, <<"R", "U">>, <<"l", "L">>, <<"1">>, <<"I", "N", "F">>,
   <<"z">>, <<"a", "a">>}

\* C20: find(doc, root, query) is, for every node in depth-first order from
\* root (object entries and array items in their order), the node once if
\* it is an entry of an object under a key containing the query whatever
\* the case, recorded before anything below it, and once if it is a scalar
\* whose value as a string (a number in decimal, true or false, null, the
\* string itself) contains the query whatever the case; an object or an
\* array is never recorded for its value, and the parent of a matching key
\* is not recorded for that key.
C20_Find ==
  state.doc # NoDoc =>
    \A root \in AllIds(state), query \in FindQueries :
      LET found == findSearchMatches(state.doc, query, root)
          order == Preorder(state.doc, root)
      IN /\ found = RecordsOver(state.doc, query, root, order)
         /\ \A i \in DOMAIN found :
              /\ found[i] \in Range(order)
              /\ state.doc.nodes[found[i]].type \in {"object", "array"} =>
                   \E p \in Range(order) :
                     \E e \in Range(state.doc.nodes[p].entries) :
                       e.childId = found[i] /\ Contains(e.key, query)

\* The search for "A" has found the number under the key "a", for its key,
\* and the search of the whole document for the empty string records the
\* scalar under a key twice: for the key and for the value.
C20_Witness ==
  /\ state.searchQuery = <<"A">>
  /\ state.searchMatches # <<>>
  /\ state.doc.nodes[state.searchMatches[1]].type = "number"
  /\ LET found == findSearchMatches(state.doc, <<>>, state.doc.rootId)
     IN \E i, j \in DOMAIN found : i < j /\ found[i] = found[j]

\* A query of white space only, and a query without the white space at
\* its ends.
IsBlank(query) == \A i \in DOMAIN query : query[i] \in Whitespace
Stripped(query) ==
  IF IsBlank(query) THEN <<>>
  ELSE LET inked == {i \in DOMAIN query : query[i] \notin Whitespace}
           first == CHOOSE i \in inked : \A j \in inked : i <= j
           last == CHOOSE i \in inked : \A j \in inked : j <= i
       IN SubSeq(query, first, last)

\* The matches of st are those of its document, anchor and query.
SearchConsistent(st) ==
  IF st.doc = NoDoc \/ IsBlank(st.searchQuery)
    THEN st.searchMatches = <<>> /\ st.activeMatch = 0 - 1
    ELSE /\ st.anchorPath # <<>>
         /\ Has(st.doc, Last(st.anchorPath))
         /\ st.searchMatches =
              RecordsOver(st.doc, Stripped(st.searchQuery), Last(st.anchorPath),
                          Preorder(st.doc, Last(st.anchorPath)))
         /\ Range(st.searchMatches) \subseteq SubtreeOf(st.doc, Last(st.anchorPath))

\* Every kind of command: the structural ones (a delete or a move names a
\* child of its parent, or an id that is not in the document), parses and
\* loads, the browsing ones, undo and redo.
AllCommands(st) ==
  (StructuralCommands(st) \ (DeleteCommands(st) \cup MoveCommands(st)))
    \cup {[type |-> "DELETE_NODE", parentId |-> t[1], childId |-> t[2]] :
             t \in TargetPairs(st.doc)}
    \cup {[type |-> "MOVE_ARRAY_ITEM", parentId |-> t[1], childId |-> t[2], direction |-> d] :
             t \in TargetPairs(st.doc), d \in {0 - 1, 1}}
    \cup TextCommands(st) \cup NavCommands(st)
    \cup {[type |-> "UNDO"], [type |-> "REDO"]}

\* C21: in every reachable state, and in the state every command returns
\* from it, searchMatches is find(doc, last of anchorPath, trimmed query)
\* for the document, anchor and query of that state, so that every match is
\* in the subtree of the anchor target; with an empty or blank query, or
\* without a document, searchMatches is empty and activeMatch is -1.
C21_MatchesCurrent ==
  /\ SearchConsistent(state)
  /\ \A c \in AllCommands(state) : SearchConsistent(editorReducer(state, c))

\* A search is on under an anchor below the root, after a change of the
\* document and an undo: the matches are those of the restored document.
C21_Witness ==
  /\ ~IsBlank(state.searchQuery)
  /\ state.searchMatches # <<>>
  /\ Len(state.anchorPath) > 1
  /\ state.redoStack # <<>>

\* The id of the active match of st, NoId when there is none.
ActiveId(st) ==
  IF st.activeMatch >= 0 /\ st.activeMatch < Len(st.searchMatches)
    THEN st.searchMatches[st.activeMatch + 1]
    ELSE NoId

\* The active match of next follows that of st: the same id if it is
\* still a match, the first match otherwise, and none exactly when there
\* is no match.
ActiveFollows(st, next) ==
  /\ (next.activeMatch = 0 - 1) <=> (next.searchMatches = <<>>)
  /\ next.searchMatches # <<>> =>
       /\ next.activeMatch \in 0..(Len(next.searchMatches) - 1)
       /\ IF ActiveId(st) # NoId /\ ActiveId(st) \in Range(next.searchMatches)
            THEN ActiveId(next) = ActiveId(st)
            ELSE next.activeMatch = 0

\* C22: when a command changes the query, the document or the anchor, the
\* active match of the state it returns is the id that was active before
\* if that id is still among the matches, the first match otherwise, and
\* -1 exactly when there is no match.
C22_ActiveMatchFollows ==
  \A c \in AllCommands(state) :
    LET next == editorReducer(state, c)
    IN (\/ next.searchQuery # state.searchQuery
        \/ next.doc # state.doc
        \/ next.anchorPath # state.anchorPath) => ActiveFollows(state, next)

\* A change of the document moves the active match to another place of
\* the match list, and the active match stays the node it was.
C22_Witness ==
  \E c \in AllCommands(state) :
    LET next == editorReducer(state, c)
    IN /\ next.doc # state.doc
       /\ ActiveId(state) # NoId
       /\ ActiveId(next) = ActiveId(state)
       /\ next.activeMatch # state.activeMatch
       /\ next.activeMatch > 0

\* The node id and every node it lies under, up to the root.
AncestorsOf(doc, id) == {n \in NodeIds(doc) : id \in Range(Preorder(doc, n))}

\* The command made a match the active one: it changed the query, the
\* document, the anchor, the history or the active match, or it is a
\* MOVE_MATCH over a list of matches.
MadeActive(st, c, next) ==
  /\ ActiveId(next) # NoId
  /\ \/ next.searchQuery # st.searchQuery
     \/ next.doc # st.doc
     \/ next.anchorPath # st.anchorPath
     \/ next.undoStack # st.undoStack
     \/ next.activeMatch # st.activeMatch
     \/ ActiveId(next) # ActiveId(st)
     \/ c.type = "MOVE_MATCH"

\* C23: whenever a command makes a match the active match (a change of the
\* query, of the document, of the anchor, UNDO, REDO or MOVE_MATCH), the
\* state it returns has the match and every ancestor of it up to the root
\* of the document in the expansion set.
C23_ActiveMatchExpanded ==
  \A c \in AllCommands(state) :
    LET next == editorReducer(state, c)
    IN MadeActive(state, c, next) =>
         /\ Has(next.doc, ActiveId(next))
         /\ next.doc.rootId \in AncestorsOf(next.doc, ActiveId(next))
         /\ AncestorsOf(next.doc, ActiveId(next)) \subseteq next.expanded

\* MOVE_MATCH steps to a match under a collapsed node, and the node is
\* expanded in the state it returns.
C23_Witness ==
  \E d \in {0 - 1, 1} :
    LET next == editorReducer(state, [type |-> "MOVE_MATCH", direction |-> d])
    IN /\ ActiveId(next) # NoId
       /\ ActiveId(next) # ActiveId(state)
       /\ ~(AncestorsOf(state.doc, ActiveId(next)) \ {ActiveId(next)} \subseteq state.expanded)
       /\ AncestorsOf(next.doc, ActiveId(next)) \subseteq next.expanded

\* The nodes of the subtree of the anchor target of st.
AnchoredSubtree(st) == Range(Preorder(st.doc, Last(st.anchorPath)))

\* EXPAND_ALL expands the whole subtree of the anchor target.
ExpandsSubtree(st) ==
  AnchoredSubtree(st) \subseteq editorReducer(st, [type |-> "EXPAND_ALL"]).expanded

\* COLLAPSE_ALL collapses every node below the anchor target.
CollapsesSubtree(st) ==
  (AnchoredSubtree(st) \ {Last(st.anchorPath)})
    \cap editorReducer(st, [type |-> "COLLAPSE_ALL"]).expanded = {}

\* The command leaves the nodes outside the anchored subtree expanded or
\* collapsed as they were.
OutsideUntouched(st, c) ==
  \A n \in NodeIds(st.doc) \ AnchoredSubtree(st) :
    (n \in editorReducer(st, c).expanded) <=> (n \in st.expanded)

\* C24: EXPAND_ALL puts every node of the subtree of the anchor target
\* into the expansion set, COLLAPSE_ALL takes every proper descendant of the
\* anchor target out of it, and neither changes whether a node outside
\* that subtree is expanded.
C24_BulkExpandScoped ==
  state.doc # NoDoc =>
    /\ ExpandsSubtree(state)
    /\ CollapsesSubtree(state)
    /\ OutsideUntouched(state, [type |-> "EXPAND_ALL"])
    /\ OutsideUntouched(state, [type |-> "COLLAPSE_ALL"])

\* SORT_KEYS of a scope with the node sel selected.
SortOnce(st, sel, scope) ==
  editorReducer([st EXCEPT !.selectedId = sel], [type |-> "SORT_KEYS", scope |-> scope])

\* C25: SORT_KEYS applied twice in the same scope gives the document that
\* applying it once gives, and so the same order of entries in every
\* object, whatever node is selected.
C25_SortIdempotent ==
  state.doc # NoDoc =>
    \A scope \in {"selected", "all"}, sel \in NodeIds(state.doc) \cup {NoId} :
      LET once == SortOnce(state, sel, scope)
          twice == editorReducer(once, [type |-> "SORT_KEYS", scope |-> scope])
      IN /\ once.selectedId = sel
         /\ twice.doc = once.doc
         /\ twice.rawText = once.rawText

\* A document whose keys are out of order: one sort of the selected object
\* reorders it and the second changes nothing.
C25_Witness ==
  /\ state.doc # NoDoc
  /\ state.selectedId # NoId
  /\ SortOnce(state, state.selectedId, "selected").doc # state.doc
  /\ SortOnce(SortOnce(state, state.selectedId, "selected"), state.selectedId, "selected").doc
       = SortOnce(state, state.selectedId, "selected").doc

\* The nodes a sort of the scope reaches: the whole document, or the
\* subtree of the selected node, through objects and arrays.
SortScope(doc, sel, scope) ==
  IF scope = "all" THEN NodeIds(doc)
  ELSE IF sel = NoId THEN {}
  ELSE Range(Preorder(doc, sel))

\* Keys in non-decreasing order.
InKeyOrder(entries) ==
  \A i, j \in DOMAIN entries : i < j => localeCompare(entries[i].key, entries[j].key) <= 0

\* C26: after SORT_KEYS every object in the scope (the whole document, or
\* the subtree of the selected node, through arrays) has its entries in
\* non-decreasing key order, and the command only permutes entries: the
\* ids, the root, every node's type, the child under every key, the items
\* of every array in their order, every scalar and the entry order of
\* every object outside the scope are what they were.
C26_SortPermutes ==
  state.doc # NoDoc =>
    \A scope \in {"selected", "all"}, sel \in NodeIds(state.doc) \cup {NoId} :
      LET before == state.doc
          after == SortOnce(state, sel, scope).doc
      IN /\ NodeIds(after) = NodeIds(before)
         /\ after.rootId = before.rootId
         /\ \A n \in NodeIds(before) :
              /\ after.nodes[n].type = before.nodes[n].type
              /\ before.nodes[n].type # "object" => after.nodes[n] = before.nodes[n]
              /\ before.nodes[n].type = "object" =>
                   /\ Len(after.nodes[n].entries) = Len(before.nodes[n].entries)
                   /\ Range(after.nodes[n].entries) = Range(before.nodes[n].entries)
                   /\ n \in SortScope(before, sel, scope) => InKeyOrder(after.nodes[n].entries)
                   /\ n \notin SortScope(before, sel, scope) => after.nodes[n] = before.nodes[n]

\* An array below the root was selected and sorted: the object in it is
\* in order, and the root object is out of order as before.
C26_Witness ==
  /\ state.undoStack # <<>>
  /\ state.doc.nodes[state.selectedId].type = "array"
  /\ Head(state.undoStack).doc # state.doc
  /\ Head(state.undoStack).doc.nodes[state.doc.rootId] = state.doc.nodes[state.doc.rootId]
  /\ ~InKeyOrder(state.doc.nodes[state.doc.rootId].entries)
  /\ \A n \in Range(Preorder(state.doc, state.selectedId)) :
       state.doc.nodes[n].type = "object" => InKeyOrder(state.doc.nodes[n].entries)

\* items with the elements at positions i and j (from 1) exchanged.
Exchanged(items, i, j) ==
  [k \in DOMAIN items |-> IF k = i THEN items[j] ELSE IF k = j THEN items[i] ELSE items[k]]

\* The position (from 1) of id in items, 0 if it is not there.
PlaceIn(items, id) ==
  IF \E k \in DOMAIN items : items[k] = id
    THEN CHOOSE k \in DOMAIN items : items[k] = id
    ELSE 0

\* C27: MOVE_ARRAY_ITEM of a child at index i of an array, in a direction
\* d with 0 <= i + d < length, gives the array with the elements at i and
\* i + d exchanged and every other position as it was; every other node
\* and the set of ids are unchanged, and the child is selected.
C27_MoveExchanges ==
  \A c \in MoveCommands(state) :
    LET before == state.doc
        next == editorReducer(state, c)
    IN (/\ Has(before, c.parentId)
        /\ before.nodes[c.parentId].type = "array"
        /\ PlaceIn(before.nodes[c.parentId].items, c.childId) > 0
        /\ PlaceIn(before.nodes[c.parentId].items, c.childId) + c.direction
             \in DOMAIN before.nodes[c.parentId].items) =>
         LET items == before.nodes[c.parentId].items
             i == PlaceIn(items, c.childId)
         IN /\ NodeIds(next.doc) = NodeIds(before)
            /\ next.doc.rootId = before.rootId
            /\ next.doc.nodes[c.parentId] =
                 [before.nodes[c.parentId] EXCEPT !.items = Exchanged(items, i, i + c.direction)]
            /\ \A n \in NodeIds(before) \ {c.parentId} : next.doc.nodes[n] = before.nodes[n]
            /\ next.selectedId = c.childId
            /\ next.doc # before

\* An item was moved inside an array of three: two items changed places,
\* the third stayed, and the moved item is selected.
C27_Witness ==
  /\ state.undoStack # <<>>
  /\ \E n \in NodeIds(state.doc) \cap NodeIds(Head(state.undoStack).doc) :
       /\ state.doc.nodes[n].type = "array"
       /\ Len(state.doc.nodes[n].items) = 3
       /\ Head(state.undoStack).doc.nodes[n].type = "array"
       /\ Range(Head(state.undoStack).doc.nodes[n].items) = Range(state.doc.nodes[n].items)
       /\ Head(state.undoStack).doc.nodes[n].items # state.doc.nodes[n].items
       /\ state.selectedId \in Range(state.doc.nodes[n].items)

NodeTypes == {"object", "array", "string", "number", "boolean", "null"}

\* ADD_NODE with every parent, parent kind, key and type.
AddOfEveryType(st) ==
  [type : {"ADD_NODE"}, parentId : AllIds(st), parentType : {"object", "array"},
   key : {sUpperA, sPadB, sEmpty}, newType : NodeTypes]

\* The node is the default of its type: "", 0, false, null, {} or [].
IsDefault(node, type) ==
  /\ node.type = type
  /\ node.entries = <<>>
  /\ node.items = <<>>
  /\ node.value = (CASE type = "number" -> <<"0">>
                     [] type = "boolean" -> <<"f", "a", "l", "s", "e">>
                     [] OTHER -> <<>>)

\* C28: a successful ADD_NODE adds exactly one node, under an id that was
\* not in the document, with the default payload of newType, as the last
\* entry of the parent (an array: at the index of its old length, an
\* object: under the trimmed key); every node that was there is unchanged
\* but for the parent's new last entry, and the new node is selected.
C28_AddAppends ==
  \A c \in AddOfEveryType(state) :
    LET before == state.doc
        next == editorReducer(state, c)
        new == NodeIds(next.doc) \ NodeIds(before)
    IN Successful(state, c) =>
         /\ Cardinality(new) = 1
         /\ NodeIds(before) \subseteq NodeIds(next.doc)
         /\ next.doc.rootId = before.rootId
         /\ \A id \in new :
              /\ id \notin UsedIds(state)
              /\ next.doc.nodes[id].id = id
              /\ IsDefault(next.doc.nodes[id], c.newType)
              /\ next.selectedId = id
              /\ next.doc.nodes[c.parentId] =
                   (IF c.parentType = "array"
                      THEN [before.nodes[c.parentId] EXCEPT !.items = Append(@, id)]
                      ELSE [before.nodes[c.parentId] EXCEPT
                              !.entries = Append(@, [key |-> Stripped(c.key), childId |-> id])])
         /\ \A n \in NodeIds(before) \ {c.parentId} : next.doc.nodes[n] = before.nodes[n]

\* A string was added to an array of two: it is the third item, it is
\* empty and it is selected.
C28_Witness ==
  /\ state.undoStack # <<>>
  /\ \E n \in NodeIds(Head(state.undoStack).doc) \cap NodeIds(state.doc) :
       /\ state.doc.nodes[n].type = "array"
       /\ Len(Head(state.undoStack).doc.nodes[n].items) = 2
       /\ Len(state.doc.nodes[n].items) = 3
       /\ state.doc.nodes[n].items[3] \notin NodeIds(Head(state.undoStack).doc)
       /\ state.selectedId = state.doc.nodes[n].items[3]
       /\ state.doc.nodes[state.selectedId].type = "string"
       /\ state.doc.nodes[state.selectedId].value = <<>>

\* The structural target of a command is malformed: an id that is not in
\* the document, a parent of the wrong kind, a child that is not an entry
\* of the parent, an edit of a container.
BadTarget(doc, c) ==
  CASE c.type = "ADD_NODE" ->
         ~Has(doc, c.parentId) \/ doc.nodes[c.parentId].type # c.parentType
    [] c.type = "RENAME_KEY" ->
         \/ ~Has(doc, c.parentId)
         \/ doc.nodes[c.parentId].type # "object"
         \/ \A i \in DOMAIN doc.nodes[c.parentId].entries :
              doc.nodes[c.parentId].entries[i].childId # c.childId
    [] c.type = "EDIT_PRIMITIVE" ->
         ~Has(doc, c.nodeId) \/ doc.nodes[c.nodeId].type \in {"object", "array"}
    [] c.type = "MOVE_ARRAY_ITEM" ->
         \/ ~Has(doc, c.parentId)
         \/ doc.nodes[c.parentId].type # "array"
         \/ c.childId \notin Range(doc.nodes[c.parentId].items)
    [] OTHER -> FALSE

\* The messages that name the key or the number as the cause.
KeyMessages ==
  {"Key is required for object properties.", "Duplicate key inside this object.",
   "Key cannot be empty.", "Keys must be unique within the object."}
NumberMessages == {"Numbers must be valid JSON numbers."}

\* The command is rejected for one of the causes of C29.
RejectedFor(st, c) ==
  CASE c.type = "ADD_NODE" -> AddRejected(st.doc, c)
    [] c.type = "RENAME_KEY" -> RenameRejected(st.doc, c)
    [] c.type = "EDIT_PRIMITIVE" -> EditRejected(st.doc, c)
    [] c.type = "MOVE_ARRAY_ITEM" -> BadTarget(st.doc, c)
    [] OTHER -> FALSE

\* C29: every structural command rejected for a duplicate key, a blank
\* key, a value that is no number for a numeric edit, or a malformed
\* target (a parent or child id that is not found, a parent of the wrong
\* kind) returns a state whose notice is of type error and names the
\* cause: a key message for a key, the number message for a number.
C29_RejectedWithNotice ==
  \A c \in AddCommands(state) \cup RenameCommands(state) \cup EditCommands(state)
             \cup MoveCommands(state) :
    LET next == editorReducer(state, c)
    IN RejectedFor(state, c) =>
         /\ next.notice.type = "error"
         /\ next.notice.message # ""
         /\ ~BadTarget(state.doc, c) =>
              next.notice.message \in
                (IF c.type = "EDIT_PRIMITIVE" THEN NumberMessages ELSE KeyMessages)

\* The text of st is its document written at its indent.
TextOfDocument(st) == st.rawText = formatJson(documentToJson(st.doc), st.indent)

\* st, and st after a change of the indent.
Reindented(st) ==
  {st} \cup {editorReducer(st, [type |-> "SET_INDENT", indent |-> i]) : i \in {0, 4}}

\* UNDO or REDO restored an entry with a document.
Restored(st, next) == next.undoStack # st.undoStack /\ next.doc # NoDoc

\* C30: after every UNDO and every REDO that restores a document, whatever
\* commands came before (a change of the indent among them), rawText is
\* the restored document written at the current indent.
C30_RestoredTextMirrors ==
  \A st \in Reindented(state), c \in {[type |-> "UNDO"], [type |-> "REDO"]} :
    LET next == editorReducer(st, c)
    IN Restored(st, next) => TextOfDocument(next)

\* The keys of a sequence of entries or of members, in order.
KeysOf(seq) == [i \in DOMAIN seq |-> seq[i].key]

\* Every object of doc has, in its value and in the text written from it,
\* the keys of its entries in the order of the entries.
OrderKept(doc) ==
  \A n \in NodeIds(doc) :
    doc.nodes[n].type = "object" =>
      /\ KeysOf(buildValue(doc, n).kids) = KeysOf(doc.nodes[n].entries)
      /\ KeysOf(StringifyTree(buildValue(doc, n)).kids) = KeysOf(doc.nodes[n].entries)

\* ADD_NODE, RENAME_KEY and SORT_KEYS with keys that are letters and keys
\* that are written like non-negative integers.
OrderCommands(st) ==
  [type : {"ADD_NODE"}, parentId : NodeIds(st.doc), parentType : {"object"},
   key : {sUpperA, sOne, sZero}, newType : {"null"}]
    \cup {[type |-> "RENAME_KEY", parentId |-> t[1], childId |-> t[2], newKey |-> k] :
            t \in ChildPairs(st.doc), k \in {sUpperA, sOne}}
    \cup [type : {"SORT_KEYS"}, scope : {"selected", "all"}]

\* C31: in every document reached through build, ADD_NODE, RENAME_KEY and
\* SORT_KEYS every object has its keys, in toValue's result and in the
\* serialized text, in exactly the order of its entry sequence, for every
\* key, keys written like non-negative integers included.
C31_EntryOrderSerialized ==
  state.doc # NoDoc =>
    /\ OrderKept(state.doc)
    /\ \A c \in OrderCommands(state) : OrderKept(editorReducer(state, c).doc)

\* The state after saving a snippet, and after overwriting the snippet id.
Saved(st) == editorReducer(st, [type |-> "SAVE_SNIPPET", name |-> "Snippet", now |-> 1])
Overwritten(st, id) == editorReducer(st, [type |-> "OVERWRITE_SNIPPET", id |-> id, now |-> 1])

\* Loading the snippet id into st succeeds with the value of doc.
LoadsValue(st, id, doc) ==
  LET loaded == editorReducer(st, [type |-> "LOAD_SNIPPET", id |-> id])
  IN /\ loaded.parseError = NoParseError
     /\ loaded.doc # NoDoc
     /\ loaded.undoStack # st.undoStack
     /\ documentToJson(loaded.doc) = documentToJson(doc)

\* C32: in every state with a document, SAVE_SNIPPET, and OVERWRITE_SNIPPET
\* of a snippet of the store, followed by LOAD_SNIPPET of that snippet
\* succeeds and gives a document with the value the document had when the
\* snippet was saved, whatever the raw text was at that time.
C32_SnippetOfDocument ==
  state.doc # NoDoc =>
    /\ LoadsValue(Saved(state), Head(Saved(state).snippets).id, state.doc)
    /\ \A i \in DOMAIN state.snippets :
         LoadsValue(Overwritten(state, state.snippets[i].id), state.snippets[i].id, state.doc)

\* The anchor path of st is not empty, starts at the root of its document,
\* ends at a node of the document and goes from parent to child.
AnchorPathWellFormed(st) ==
  /\ st.doc # NoDoc
  /\ st.anchorPath # <<>>
  /\ Head(st.anchorPath) = st.doc.rootId
  /\ Has(st.doc, Last(st.anchorPath))
  /\ IsRootPath(st.doc, st.anchorPath, Last(st.anchorPath))

\* C33: in every state reached from the default document by any sequence of
\* commands, undo and redo included, the anchor path is not empty, starts at
\* the root of the current document, ends at a node of the current document,
\* and each of its ids is the parent of the next in the current document.
C33_AnchorPathWellFormed ==
  /\ AnchorPathWellFormed(state)
  /\ \A c \in DeleteCommands(state) : AnchorPathWellFormed(editorReducer(state, c))

\* C34: from an empty history the undo and the redo stack never hold more
\* than 50 entries together, so the truncation to 50 in UNDO and REDO drops
\* no entry: UNDO moves one entry's worth from the undo stack to the redo
\* stack, REDO moves one back, and the total stays the same.
C34_HistoryTotalBounded ==
  /\ Len(state.undoStack) + Len(state.redoStack) <= 50
  /\ state.undoStack # <<>> =>
       /\ undo(state).undoStack = Tail(state.undoStack)
       /\ undo(state).redoStack = <<snapshotState(state)>> \o state.redoStack
       /\ Len(undo(state).undoStack) + Len(undo(state).redoStack)
            = Len(state.undoStack) + Len(state.redoStack)
  /\ state.redoStack # <<>> =>
       /\ redo(state).redoStack = Tail(state.redoStack)
       /\ redo(state).undoStack = <<snapshotState(state)>> \o state.undoStack
       /\ Len(redo(state).undoStack) + Len(redo(state).redoStack)
            = Len(state.undoStack) + Len(state.redoStack)

\* The two stacks hold 50 entries together after an undo of a full history.
C34_Witness ==
  /\ Len(state.undoStack) + Len(state.redoStack) = 50
  /\ Len(state.redoStack) >= 2
  /\ hist.made > 50

\* The state MOVE_MATCH returns for a direction.
Moved(st, direction) == editorReducer(st, [type |-> "MOVE_MATCH", direction |-> direction])

\* C35: in every reachable state activeMatch is -1 exactly when there are no
\* matches and is an index of the match list otherwise; MOVE_MATCH with
\* direction d on n >= 1 matches sets activeMatch to (activeMatch + d) mod n,
\* wrapping at both ends, and selects that match.
C35_ActiveMatchInRange ==
  /\ (state.activeMatch = 0 - 1) <=> (state.searchMatches = <<>>)
  /\ state.searchMatches # <<>> =>
       /\ 0 <= state.activeMatch
       /\ state.activeMatch < Len(state.searchMatches)
       /\ \A d \in {0 - 1, 1} :
            /\ Moved(state, d).activeMatch
                 = (state.activeMatch + d) % Len(state.searchMatches)
            /\ Moved(state, d).selectedId
                 = state.searchMatches[Moved(state, d).activeMatch + 1]
            /\ Moved(state, d).searchMatches = state.searchMatches
       /\ state.activeMatch = Len(state.searchMatches) - 1 =>
            Moved(state, 1).activeMatch = 0
       /\ state.activeMatch = 0 =>
            Moved(state, 0 - 1).activeMatch = Len(state.searchMatches) - 1

\* MOVE_MATCH has gone back from the first of several matches to the last,
\* which it selected, and the next one forward is the first again.
C35_Witness ==
  /\ Len(state.searchMatches) >= 2
  /\ state.activeMatch = Len(state.searchMatches) - 1
  /\ state.selectedId = Last(state.searchMatches)
  /\ Moved(state, 1).activeMatch = 0
  /\ Moved(state, 1).selectedId = Head(state.searchMatches)

\* The selection of st is empty or a node of its document.
SelectionPresent(st) ==
  st.selectedId = NoId \/ (st.doc # NoDoc /\ Has(st.doc, st.selectedId))

\* C36: in every state reached by commands whose SET_SELECTED targets are
\* ids of the current document, selectedId is undefined or the id of a node
\* of the current document: after deletes, of the subtree of the selected
\* node too, undo, redo, parses, anchor changes and match navigation.
C36_SelectionPresent ==
  /\ SelectionPresent(state)
  /\ \A c \in DeleteCommands(state) \cup NavCommands(state) \cup HistoryCommands(state) :
       (c.type = "SET_SELECTED" => Has(state.doc, c.nodeId)) =>
         SelectionPresent(editorReducer(state, c))

\* No id occurs twice in seq.
NoRepeat(seq) == \A i, j \in DOMAIN seq : seq[i] = seq[j] => i = j

\* C37: for every document and every query the match list holds no node id
\* more than once, so the number of matches is the number of distinct
\* matching nodes, and MOVE_MATCH on at least two matches moves to a
\* different node.
C37_MatchesDistinct ==
  state.doc # NoDoc =>
    /\ \A root \in NodeIds(state.doc), query \in FindQueries \ {sEmpty} :
         LET found == findSearchMatches(state.doc, query, root)
         IN /\ NoRepeat(found)
            /\ Len(found) = Cardinality(Range(found))
    /\ NoRepeat(state.searchMatches)
    /\ Len(state.searchMatches) >= 2 =>
         \A d \in {0 - 1, 1} :
           Moved(state, d).selectedId # state.searchMatches[state.activeMatch + 1]

\* Commands that may leave the document as it is: sorts, renames of a
\* member to the key it has, edits, and deletes of an id that is not in
\* the document.
SameDocCommands(st) ==
  [type : {"SORT_KEYS"}, scope : {"selected", "all"}]
    \cup UNION {{[type |-> "RENAME_KEY", parentId |-> p, childId |-> e.childId,
                   newKey |-> e.key] : e \in Range(st.doc.nodes[p].entries)} :
                 p \in NodeIds(st.doc)}
    \cup EditCommands(st)
    \cup [type : {"DELETE_NODE"}, parentId : NodeIds(st.doc), childId : {MissingId}]

\* C38: a history entry is pushed, and the redo stack cleared, only by a
\* command that changes the document: SORT_KEYS of a scope that is sorted
\* already or of 'selected' without a selection, RENAME_KEY to the key the
\* entry has, EDIT_PRIMITIVE to the type and value the node has, and
\* DELETE_NODE of a child id that is not in the document return the document
\* they were given and leave the undo and the redo stack as they were.
C38_PushOnlyOnChange ==
  state.doc # NoDoc =>
    \A c \in SameDocCommands(state) :
      LET next == editorReducer(state, c)
      IN next.doc = state.doc =>
           /\ next.undoStack = state.undoStack
           /\ next.redoStack = state.redoStack

\* C39: in every state reached from the default document in which a
\* document is present, lastValidText is the text of the current document
\* at the current indent, after UNDO and REDO too.
C39_LastValidTextOfDocument ==
  state.doc # NoDoc =>
    state.lastValidText = formatJson(documentToJson(state.doc), state.indent)

\* c is accepted in st: a mutation, parse or load that succeeds, an undo
\* with something to undo, a redo with something to redo.
Accepted(st, c) ==
  CASE c.type = "UNDO" -> st.undoStack # <<>>
    [] c.type = "REDO" -> st.redoStack # <<>>
    [] OTHER -> Successful(st, c)

\* C40: the notice of the state a command returns is about that command:
\* an accepted command (a successful mutation, parse, undo or redo) never
\* returns a state whose notice is the error notice of an earlier rejected
\* command.
C40_NoStaleErrorNotice ==
  state.doc # NoDoc =>
    \A c \in HistoryCommands(state) \cup {[type |-> "UNDO"], [type |-> "REDO"]} :
      Accepted(state, c) => editorReducer(state, c).notice.type # "error"

====
